---------------------------- MODULE Spec2Model ----------------------------
(***************************************************************************)
(* A model of smx-dasm-rs: the SMX container loader (src/headers), the     *)
(* name table and typed tables (src/sections, src/v1types) and the file    *)
(* facade (src/file).                                                      *)
(*                                                                         *)
(* Bytes are integers 0..255 and buffers are sequences of bytes; buffer    *)
(* offsets are 0-based as in the source, so byte o of buffer d is d[o+1].  *)
(* A 32-bit word is held as its two's-complement value (an i32); a u32 is  *)
(* held by the same bit pattern, which keeps every value inside TLC's      *)
(* integers and keeps equality of words exact.                             *)
(***************************************************************************)
EXTENDS Integers, Sequences, FiniteSets, TLC

VARIABLES
    input,      \* SMXHeader::new: the byte buffer handed in
    hpc,        \* SMXHeader::new: position in the function
    hfix,       \* SMXHeader::new: the locals read from the 24-byte header
    p_data,     \* SMXHeader::new: the image being built
    sections,   \* SMXHeader::new: the section directory read so far
    found_dbg_section, \* SMXHeader::new: ".dbg.natives" seen
    hres,       \* SMXHeader::new: the value returned
    ntImage,    \* SMXNameTable.base.header.data: the image
    ntSection,  \* SMXNameTable.base.section: the directory entry of the pool
    names,      \* SMXNameTable.names: the cache, index -> string
    extends,    \* SMXNameTable.extends: the root offsets
    ntRet,      \* the last call on the name table and what it returned
    ntPrev,     \* the call before the last, and what it returned
    tbImage,    \* a table's base.header.data: the image
    tbNames,    \* the directory entry of ".names"
    tbSection,  \* the directory entry the table is built over
    tbRes,      \* what the table's constructor returned
    fInput,     \* SMXFile::new: the byte buffer handed in
    fpc,        \* SMXFile::new: position in the function
    fidx,       \* SMXFile::new: index of the current loop's next element
    file,       \* SMXFile::new: the container being filled
    fsnap,      \* SMXFile::new: the entries the loop of lines 106-110 walks
    fRes,       \* SMXFile::new: the value returned
    tgEntry,    \* Tag.entry: the row a Tag wraps
    tgRet,      \* the last accessor called on the Tag and its value
    tagCache,   \* SMXTagTable.cache: tag id -> Tag
    lkRet,      \* the last lookup made on a table and what it returned
    rtBytes,    \* the bytes of the rtti.data section
    rtFile,     \* the RTTI tables of the file and whether the file is borrowed
    rtChecks,   \* the build checks arithmetic overflow
    rtRet,      \* the last decoder call and what it returned
    dsFile,     \* the container the disassembler works on
    dsCode,     \* its code section
    dsRet,      \* the last disassembler call and its result
    rlImage,    \* RTTI tables: the image
    rlNames,    \* RTTI tables: the .names section
    rlSection,  \* RTTI tables: the table's section
    rlRes       \* RTTI tables: what the constructor returned

hdrVars == <<input, hpc, hfix, p_data, sections, found_dbg_section, hres>>

ntVars == <<ntImage, ntSection, names, extends, ntRet, ntPrev>>

tbVars == <<tbImage, tbNames, tbSection, tbRes>>

\* What SMXHeader::new, the name table's calls and the table constructors
\* leave alone.
fileVars == <<fInput, fpc, fidx, file, fsnap, fRes>>

tagVars == <<tgEntry, tgRet>>

lkVars == <<tagCache, lkRet>>

rtVars == <<rtBytes, rtFile, rtChecks, rtRet>>

dsVars == <<dsFile, dsCode, dsRet>>

rlVars == <<rlImage, rlNames, rlSection, rlRes>>

hdrOthers == <<ntVars, tbVars, fileVars, tagVars, lkVars, rtVars, dsVars, rlVars>>

ntOthers == <<hdrVars, tbVars, fileVars, tagVars, lkVars, rtVars, dsVars, rlVars>>

tbOthers == <<hdrVars, ntVars, fileVars, tagVars, lkVars, rtVars, dsVars, rlVars>>

fileOthers == <<hdrVars, ntVars, tbVars, tagVars, lkVars, rtVars, dsVars, rlVars>>

tagOthers == <<hdrVars, ntVars, tbVars, fileVars, lkVars, rtVars, dsVars, rlVars>>

lkOthers == <<hdrVars, ntVars, tbVars, fileVars, tagVars, rtVars, dsVars, rlVars>>

rtOthers == <<hdrVars, ntVars, tbVars, fileVars, tagVars, lkVars, dsVars, rlVars>>

dsOthers == <<hdrVars, ntVars, tbVars, fileVars, tagVars, lkVars, rtVars, rlVars>>

rlOthers == <<hdrVars, ntVars, tbVars, fileVars, tagVars, lkVars, rtVars, dsVars>>

(***************************************************************************)
(* Byte-level reads (byteorder::ReadBytesExt over std::io::Cursor).        *)
(***************************************************************************)

\* The bytes [from, to) of a buffer (a Rust slice d[from..to]).
Slice(d, from, to) == SubSeq(d, from + 1, to)

\* F applied to the value of e, e evaluated once: a let binding.
Let(e, F(_)) == CHOOSE y \in {F(x) : x \in {e}} : TRUE

\* read_exact: whether n bytes are left at cursor position pos.
CanRead(d, pos, n) == pos >= 0 /\ pos + n <= Len(d)

ReadU8(d, pos) == d[pos + 1]

ReadU16LE(d, pos) == d[pos + 1] + 256 * d[pos + 2]

\* read_i32::<LittleEndian>: the top byte carries the sign.
ReadI32LE(d, pos) ==
    LET top == d[pos + 4]
        hi  == IF top >= 128 THEN top - 256 ELSE top
    IN  d[pos + 1] + 256 * d[pos + 2] + 65536 * d[pos + 3] + 16777216 * hi

\* read_u32::<LittleEndian>, as the i32 with the same bits.
ReadU32BE(d, pos) ==
    LET top == d[pos + 1]
        hi  == IF top >= 128 THEN top - 256 ELSE top
    IN  d[pos + 4] + 256 * d[pos + 3] + 65536 * d[pos + 2] + 16777216 * hi

ReadU32LE(d, pos) == ReadI32LE(d, pos)

\* String::from_utf8_lossy on the bytes the model uses: an ASCII byte is its
\* own character, and a byte >= 0x80 standing alone is U+FFFD.
FromUtf8Lossy(bytes) ==
    [i \in 1..Len(bytes) |-> IF bytes[i] < 128 THEN bytes[i] ELSE 65533]


\* read_cstring on a cursor over d[start..]: the bytes up to the first NUL.
\* Reading past the end of the buffer is an Io error (read_exact).
CStringEnd(d, start) ==
    IF \E i \in (start + 1)..Len(d) : d[i] = 0
    THEN (CHOOSE i \in (start + 1)..Len(d) :
              d[i] = 0 /\ \A j \in (start + 1)..(i - 1) : d[j] # 0) - 1
    ELSE -1

read_cstring(d, start) ==
    LET e == CStringEnd(d, start)
    IN  IF e < 0
        THEN [st |-> "err", err |-> "Io", str |-> <<>>]
        ELSE [st |-> "ok", err |-> "", str |-> FromUtf8Lossy(Slice(d, start, e))]

(***************************************************************************)
(* flate2::read::ZlibDecoder::read_to_end, for the zlib streams the model  *)
(* builds: a 2-byte zlib header, stored (BTYPE = 00) deflate blocks, and   *)
(* the big-endian Adler-32 of the output.  Huffman-coded blocks are not    *)
(* decoded here, and no input of the model holds one.                      *)
(***************************************************************************)
RECURSIVE AdlerA(_, _), AdlerB(_, _)
AdlerA(bytes, n) == IF n = 0 THEN 1 ELSE (AdlerA(bytes, n - 1) + bytes[n]) % 65521
AdlerB(bytes, n) == IF n = 0 THEN 0 ELSE (AdlerB(bytes, n - 1) + AdlerA(bytes, n)) % 65521

Adler32Bytes(bytes) ==
    LET a == AdlerA(bytes, Len(bytes))
        b == AdlerB(bytes, Len(bytes))
    IN  <<b \div 256, b % 256, a \div 256, a % 256>>

\* The stored blocks of z from offset pos on, appended to out: st is "ok" with
\* the offset just past the final block, or "err".
RECURSIVE InflateBlocks(_, _, _)
InflateBlocks(z, pos, out) ==
    IF ~CanRead(z, pos, 5) THEN [st |-> "err", out |-> out, pos |-> pos]
    ELSE
      LET hdr    == z[pos + 1]
          bfinal == hdr % 2
          btype  == (hdr \div 2) % 4
          len    == ReadU16LE(z, pos + 1)
          nlen   == ReadU16LE(z, pos + 3)
      IN  IF btype # 0 \/ len + nlen # 65535 \/ ~CanRead(z, pos + 5, len)
          THEN [st |-> "err", out |-> out, pos |-> pos]
          ELSE LET out2 == out \o Slice(z, pos + 5, pos + 5 + len)
               IN  IF bfinal = 1
                   THEN [st |-> "ok", out |-> out2, pos |-> pos + 5 + len]
                   ELSE InflateBlocks(z, pos + 5 + len, out2)

Inflate(z) ==
    IF ~CanRead(z, 0, 2) THEN [st |-> "err", out |-> <<>>]
    ELSE IF z[1] % 16 # 8 \/ z[1] \div 16 > 7 \/ (256 * z[1] + z[2]) % 31 # 0
            \/ (z[2] \div 32) % 2 = 1
    THEN [st |-> "err", out |-> <<>>]
    ELSE LET b == InflateBlocks(z, 2, <<>>)
         IN  IF b.st # "ok" \/ ~CanRead(z, b.pos, 4)
             THEN [st |-> "err", out |-> <<>>]
             ELSE IF Slice(z, b.pos, b.pos + 4) # Adler32Bytes(b.out)
             THEN [st |-> "err", out |-> <<>>]
             ELSE [st |-> "ok", out |-> b.out]

(***************************************************************************)
(* SMXHeader::new (src/headers/mod.rs).                                    *)
(***************************************************************************)
FILE_MAGIC == 1397769798

SP1_VERSION_1_0 == 257

HEADER_SIZE == 24

\* ".dbg.natives"
DBG_NATIVES == <<46, 100, 98, 103, 46, 110, 97, 116, 105, 118, 101, 115>>

\* impl From<u8> for CompressionType
CompressionType_from(byte) == IF byte = 1 THEN "CompressionGZ" ELSE "CompressionNone"

NoFixed ==
    [version |-> 0, compression_type |-> "CompressionNone", disk_size |-> 0,
     image_size |-> 0, section_count |-> 0, string_table_offset |-> 0,
     data_offset |-> 0]

HdrErr(e) == [st |-> "err", err |-> e, f |-> NoFixed]

\* Lines 131-167: the reads of the fixed header, each followed by its check.
HdrFixed_OffsetsFirst(data) ==
    IF ~CanRead(data, 0, 4) THEN HdrErr("Io")
    ELSE IF ReadU32LE(data, 0) # FILE_MAGIC THEN HdrErr("InvalidMagic")
    ELSE IF ~CanRead(data, 4, 20) THEN HdrErr("Io")
    ELSE IF ReadI32LE(data, 16) < HEADER_SIZE THEN HdrErr("InvalidOffset")
    ELSE IF ReadI32LE(data, 20) < HEADER_SIZE THEN HdrErr("InvalidOffset")
    ELSE IF ReadI32LE(data, 7) < HEADER_SIZE THEN HdrErr("InvalidSize")
    ELSE IF ReadI32LE(data, 11) < HEADER_SIZE THEN HdrErr("InvalidSize")
    ELSE [st |-> "ok", err |-> "",
          f |-> [version |-> ReadU16LE(data, 4),
                 compression_type |-> CompressionType_from(ReadU8(data, 6)),
                 disk_size |-> ReadI32LE(data, 7),
                 image_size |-> ReadI32LE(data, 11),
                 section_count |-> ReadU8(data, 15),
                 string_table_offset |-> ReadI32LE(data, 16),
                 data_offset |-> ReadI32LE(data, 20)]]

HdrFixed(data) ==
    IF ~CanRead(data, 0, 4) THEN HdrErr("Io")
    ELSE IF ReadU32LE(data, 0) # FILE_MAGIC THEN HdrErr("InvalidMagic")
    ELSE IF ~CanRead(data, 4, 2) THEN HdrErr("Io")
    ELSE IF ~CanRead(data, 6, 1) THEN HdrErr("Io")
    ELSE IF ~CanRead(data, 7, 4) THEN HdrErr("Io")
    ELSE IF ReadI32LE(data, 7) < HEADER_SIZE THEN HdrErr("InvalidSize")
    ELSE IF ~CanRead(data, 11, 4) THEN HdrErr("Io")
    ELSE IF ReadI32LE(data, 11) < HEADER_SIZE THEN HdrErr("InvalidSize")
    ELSE IF ~CanRead(data, 15, 1) THEN HdrErr("Io")
    ELSE IF ~CanRead(data, 16, 4) THEN HdrErr("Io")
    ELSE IF ReadI32LE(data, 16) < HEADER_SIZE THEN HdrErr("InvalidOffset")
    ELSE IF ~CanRead(data, 20, 4) THEN HdrErr("Io")
    ELSE IF ReadI32LE(data, 20) < HEADER_SIZE THEN HdrErr("InvalidOffset")
    ELSE [st |-> "ok", err |-> "",
          f |-> [version |-> ReadU16LE(data, 4),
                 compression_type |-> CompressionType_from(ReadU8(data, 6)),
                 disk_size |-> ReadI32LE(data, 7),
                 image_size |-> ReadI32LE(data, 11),
                 section_count |-> ReadU8(data, 15),
                 string_table_offset |-> ReadI32LE(data, 16),
                 data_offset |-> ReadI32LE(data, 20)]]

\* Lines 171 and 175: the image of an uncompressed container.
ImageNone_SkipHeader(data, f) == Slice(data, HEADER_SIZE, f.image_size)

ImageNone(data, f) ==
    Slice(data, 0, HEADER_SIZE) \o Slice(data, HEADER_SIZE, f.image_size)

\* Lines 171, 178 and 182: the image of a compressed container, given the
\* inflated tail.
ImageGZ_SkipDirectory(data, f, inflated) ==
    Slice(data, 0, HEADER_SIZE) \o inflated

ImageGZ(data, f, inflated) ==
    Slice(data, 0, HEADER_SIZE) \o Slice(data, HEADER_SIZE, f.data_offset)
        \o inflated

\* Lines 169-184: the image.  A slice bound past the end of the input panics.
HdrImage(data, f) ==
    IF f.compression_type = "CompressionNone"
    THEN IF f.image_size > Len(data)
         THEN [st |-> "panic", err |-> "", data |-> <<>>]
         ELSE [st |-> "ok", err |-> "", data |-> ImageNone(data, f)]
    ELSE IF f.data_offset > Len(data)
         THEN [st |-> "panic", err |-> "", data |-> <<>>]
         ELSE LET z == Inflate(Slice(data, f.data_offset, Len(data)))
              IN  IF z.st # "ok"
                  THEN [st |-> "err", err |-> "Io", data |-> <<>>]
                  ELSE [st |-> "ok", err |-> "", data |-> ImageGZ(data, f, z.out)]

NoSection == [name_offset |-> 0, data_offset |-> 0, size |-> 0, name |-> <<>>]

SecErr(s, e) == [st |-> s, err |-> e, entry |-> NoSection]

\* Lines 196-239: directory entry k (0-based), read at image offset 24 + 12 k.
HdrSection(image, f, k) ==
    LET pos == HEADER_SIZE + 12 * k
    IN  IF ~CanRead(image, pos, 4) THEN SecErr("err", "Io")
        ELSE IF ReadI32LE(image, pos) < 0 THEN SecErr("err", "OffsetOverflow")
        ELSE IF ~CanRead(image, pos + 4, 4) THEN SecErr("err", "Io")
        ELSE IF ReadI32LE(image, pos + 4) < HEADER_SIZE
             THEN SecErr("err", "OffsetOverflow")
        ELSE IF ~CanRead(image, pos + 8, 4) THEN SecErr("err", "Io")
        ELSE IF ReadI32LE(image, pos + 8) < 0 THEN SecErr("err", "SizeOverflow")
        ELSE LET start == f.string_table_offset + ReadI32LE(image, pos)
             IN  IF start > Len(image) THEN SecErr("panic", "")
                 ELSE LET n == read_cstring(image, start)
                      IN  IF n.st # "ok" THEN SecErr("err", n.err)
                          ELSE [st |-> "ok", err |-> "",
                                entry |-> [name_offset |-> ReadI32LE(image, pos),
                                           data_offset |-> ReadI32LE(image, pos + 4),
                                           size |-> ReadI32LE(image, pos + 8),
                                           name |-> n.str]]

\* Line 252.
debug_packed_Or(version, found) == version = SP1_VERSION_1_0 \/ ~found

debug_packed(version, found) == version = SP1_VERSION_1_0 /\ ~found

NoHeader ==
    [version |-> 0, compression_type |-> "CompressionNone", disk_size |-> 0,
     image_size |-> 0, section_count |-> 0, string_table_offset |-> 0,
     data_offset |-> 0, data |-> <<>>, sections |-> <<>>, debug_packed |-> FALSE]

\* Lines 241-253: the header returned.
HdrOk(f, image, secs, found) ==
    [st |-> "ok", err |-> "",
     header |-> [version |-> f.version, compression_type |-> f.compression_type,
                 disk_size |-> f.disk_size, image_size |-> f.image_size,
                 section_count |-> f.section_count,
                 string_table_offset |-> f.string_table_offset,
                 data_offset |-> f.data_offset, data |-> image, sections |-> secs,
                 debug_packed |-> debug_packed(f.version, found)]]

HdrFail(s, e) == [st |-> s, err |-> e, header |-> NoHeader]

NoResult == [st |-> "none", err |-> "", header |-> NoHeader]

(***************************************************************************)
(* SMXHeader::new as steps: the fixed header, the image, one directory     *)
(* entry per loop iteration, the return.                                   *)
(***************************************************************************)
HdrReadFixed ==
    /\ hpc = "fixed"
    /\ LET r == HdrFixed(input)
       IN  /\ hfix' = r.f
           /\ IF r.st = "ok"
              THEN hpc' = "image" /\ hres' = hres
              ELSE hpc' = "done" /\ hres' = HdrFail(r.st, r.err)
    /\ UNCHANGED <<input, p_data, sections, found_dbg_section>>
    /\ UNCHANGED hdrOthers

HdrBuildImage ==
    /\ hpc = "image"
    /\ LET r == HdrImage(input, hfix)
       IN  /\ p_data' = r.data
           /\ IF r.st = "ok"
              THEN hpc' = "sections" /\ hres' = hres
              ELSE hpc' = "done" /\ hres' = HdrFail(r.st, r.err)
    /\ UNCHANGED <<input, hfix, sections, found_dbg_section>>
    /\ UNCHANGED hdrOthers

HdrReadSection ==
    /\ hpc = "sections"
    /\ Len(sections) < hfix.section_count
    /\ LET r == HdrSection(p_data, hfix, Len(sections))
       IN  IF r.st = "ok"
           THEN /\ sections' = Append(sections, r.entry)
                /\ found_dbg_section' =
                       (found_dbg_section \/ r.entry.name = DBG_NATIVES)
                /\ UNCHANGED <<hpc, hres>>
           ELSE /\ hpc' = "done"
                /\ hres' = HdrFail(r.st, r.err)
                /\ UNCHANGED <<sections, found_dbg_section>>
    /\ UNCHANGED <<input, hfix, p_data>>
    /\ UNCHANGED hdrOthers

HdrReturn ==
    /\ hpc = "sections"
    /\ Len(sections) = hfix.section_count
    /\ hpc' = "done"
    /\ hres' = HdrOk(hfix, p_data, sections, found_dbg_section)
    /\ UNCHANGED <<input, hfix, p_data, sections, found_dbg_section>>
    /\ UNCHANGED hdrOthers

\* SMXHeader::new as one function of its input: the steps above, run to the
\* return.
RECURSIVE HdrSections(_, _, _, _)
HdrSections(image, f, secs, found) ==
    IF Len(secs) = f.section_count THEN HdrOk(f, image, secs, found)
    ELSE Let(HdrSection(image, f, Len(secs)), LAMBDA r :
             IF r.st # "ok" THEN HdrFail(r.st, r.err)
             ELSE Let(<<Append(secs, r.entry),
                        found \/ r.entry.name = DBG_NATIVES>>, LAMBDA a :
                      HdrSections(image, f, a[1], a[2])))

SMXHeader_new(data) ==
    Let(HdrFixed(data), LAMBDA r :
        IF r.st # "ok" THEN HdrFail(r.st, r.err)
        ELSE Let(HdrImage(data, r.f), LAMBDA im :
                 IF im.st # "ok" THEN HdrFail(im.st, im.err)
                 ELSE Let(<<im.data, r.f>>, LAMBDA a :
                          HdrSections(a[1], a[2], <<>>, FALSE))))

(***************************************************************************)
(* The input buffers of the header loader: containers written field by     *)
(* field, with fields, directory entries and the compressed tail varied    *)
(* one family at a time.                                                   *)
(***************************************************************************)
MaxSections == 2

U16LE(x) == <<x % 256, (x \div 256) % 256>>

I32LE(x) == <<x % 256, (x \div 256) % 256, (x \div 65536) % 256,
              (x \div 16777216) % 256>>

RECURSIVE Flatten(_)
Flatten(ss) == IF ss = <<>> THEN <<>> ELSE Head(ss) \o Flatten(Tail(ss))

\* ".names\0.dbg.natives\0"
SectionNamePool ==
    <<46, 110, 97, 109, 101, 115, 0>> \o DBG_NATIVES \o <<0>>

\* "fo\0", then 0xFF "o\0", then a last byte with no NUL after it.
PayloadBytes == <<102, 111, 0, 255, 111, 0, 7>>

StoredBlock(final, bytes) ==
    <<final>> \o U16LE(Len(bytes)) \o U16LE(65535 - Len(bytes)) \o bytes

\* A zlib stream of stored blocks holding bytes.
ZlibStored(bytes, zmode) ==
    CASE zmode = "one" ->
             <<120, 1>> \o StoredBlock(1, bytes) \o Adler32Bytes(bytes)
      [] zmode = "two" ->
             <<120, 1>> \o StoredBlock(0, SubSeq(bytes, 1, 2))
                 \o StoredBlock(1, SubSeq(bytes, 3, Len(bytes)))
                 \o Adler32Bytes(bytes)
      [] zmode = "badhdr" ->
             <<120, 2>> \o StoredBlock(1, bytes) \o Adler32Bytes(bytes)
      [] zmode = "badsum" ->
             <<120, 1>> \o StoredBlock(1, bytes) \o <<0, 0, 0, 0>>
      [] OTHER -> <<120, 1>> \o StoredBlock(1, bytes)

EntryKinds ==
    {"names", "dbgnatives", "suffix", "lossy", "negname", "lowdata", "negsize",
     "nonul", "atend", "pastend"}

\* The directory entry of a kind, for a payload at offset doff.
EntryOf(kind, doff) ==
    LET pl == Len(SectionNamePool)
        no == CASE kind = "dbgnatives" -> 7
                [] kind = "suffix" -> 8
                [] kind = "lossy" -> pl + 3
                [] kind = "negname" -> -1
                [] kind = "nonul" -> pl + 6
                [] kind = "atend" -> pl + 7
                [] kind = "pastend" -> pl + 8
                [] OTHER -> 0
    IN  [name_offset |-> no,
         data_offset |-> IF kind = "lowdata" THEN HEADER_SIZE - 1 ELSE doff,
         size |-> IF kind = "negsize" THEN -1 ELSE Len(PayloadBytes)]

EntryBytes(e) == I32LE(e.name_offset) \o I32LE(e.data_offset) \o I32LE(e.size)

\* The true layout of a container with the directory kinds.
TrueStringTableOffset(kinds) == HEADER_SIZE + 12 * Len(kinds)
TrueDataOffset(kinds) == TrueStringTableOffset(kinds) + Len(SectionNamePool)
TrueImageSize(kinds) == TrueDataOffset(kinds) + Len(PayloadBytes)

BaseParams(kinds) ==
    [magic |-> FILE_MAGIC, version |-> SP1_VERSION_1_0, comp |-> 0,
     disk |-> TrueImageSize(kinds), image |-> TrueImageSize(kinds),
     count |-> Len(kinds), stoff |-> TrueStringTableOffset(kinds),
     doff |-> TrueDataOffset(kinds), kinds |-> kinds, zmode |-> "one",
     trail |-> <<>>]

Container(p) ==
    I32LE(p.magic) \o U16LE(p.version) \o <<p.comp>> \o I32LE(p.disk)
        \o I32LE(p.image) \o <<p.count>> \o I32LE(p.stoff) \o I32LE(p.doff)
        \o Flatten([i \in 1..Len(p.kinds) |->
                       EntryBytes(EntryOf(p.kinds[i], TrueDataOffset(p.kinds)))])
        \o SectionNamePool
        \o (IF p.comp = 1 THEN ZlibStored(PayloadBytes, p.zmode) ELSE PayloadBytes)
        \o p.trail

Dirs == UNION {[1..n -> EntryKinds] : n \in 0..MaxSections}

\* 0x53504647, 0x53504746, the bytes of the magic in big-endian order, and a
\* word with the top bit set.
BadMagics == {1397769799, 1397770054, 1179013203, -1397769798}

FamMagic ==
    {[BaseParams(k) EXCEPT !.magic = m, !.disk = d, !.doff = o] :
        m \in BadMagics, k \in {<<>>, <<"names">>}, d \in {HEADER_SIZE - 1, 31},
        o \in {HEADER_SIZE - 1, 31}}

FamFields ==
    {[BaseParams(<<"names">>) EXCEPT
          !.comp = c,
          !.disk = IF d = 0 THEN @ ELSE d,
          !.image = IF i = 0 THEN @ ELSE i,
          !.stoff = IF s = 0 THEN @ ELSE s,
          !.doff = IF o = 0 THEN @ ELSE o] :
        c \in {0, 1}, d \in {-1, HEADER_SIZE - 1, HEADER_SIZE, 0},
        i \in {HEADER_SIZE - 1, HEADER_SIZE, 0},
        s \in {HEADER_SIZE - 1, 0}, o \in {-1, HEADER_SIZE - 1, 0}}

FamImage ==
    {[BaseParams(k) EXCEPT !.comp = c, !.image = @ + di, !.zmode = z,
                           !.trail = t, !.version = v] :
        k \in {<<>>, <<"names">>}, c \in {0, 1, 2}, di \in {-1, 0, 1},
        z \in {"one", "two", "badhdr", "badsum", "nosum"},
        t \in {<<>>, <<170>>}, v \in {SP1_VERSION_1_0, SP1_VERSION_1_0 + 1}}

FamDir ==
    {[BaseParams(k) EXCEPT !.comp = c, !.version = v] :
        k \in Dirs, c \in {0, 1}, v \in {SP1_VERSION_1_0, SP1_VERSION_1_0 + 1}}

\* Every prefix of a well-formed container, from the empty buffer on.
FamTruncated ==
    LET whole == Container(BaseParams(<<"names", "dbgnatives">>))
    IN  {SubSeq(whole, 1, n) : n \in 0..Len(whole)}
            \cup {SubSeq(Container([BaseParams(<<>>) EXCEPT !.magic = m]), 1, n) :
                     m \in BadMagics, n \in 3..6}

HeaderInputs ==
    {Container(p) : p \in FamMagic \cup FamFields \cup FamImage \cup FamDir}
        \cup FamTruncated

HdrInit ==
    /\ input \in HeaderInputs
    /\ hpc = "fixed"
    /\ hfix = NoFixed
    /\ p_data = <<>>
    /\ sections = <<>>
    /\ found_dbg_section = FALSE
    /\ hres = NoResult

HdrNext == HdrReadFixed \/ HdrBuildImage \/ HdrReadSection \/ HdrReturn

HdrIdle ==
    /\ input = <<>>
    /\ hpc = "idle"
    /\ hfix = NoFixed
    /\ p_data = <<>>
    /\ sections = <<>>
    /\ found_dbg_section = FALSE
    /\ hres = NoResult

(***************************************************************************)
(* SMXNameTable (src/sections/mod.rs).                                     *)
(***************************************************************************)
NtOk(str) == [st |-> "ok", err |-> "", str |-> str]

NtErr(s, e) == [st |-> s, err |-> e, str |-> <<>>]

\* Lines 83-93: the bytes from index on, up to a NUL or the end of the
\* section.  An image index outside the image panics.
RECURSIVE ScanString(_, _, _, _)
ScanString(image, sec, i, acc) ==
    IF i >= sec.size THEN NtOk(FromUtf8Lossy(acc))
    ELSE IF sec.data_offset + i < 0 \/ sec.data_offset + i >= Len(image)
    THEN NtErr("panic", "")
    ELSE IF image[sec.data_offset + i + 1] = 0 THEN NtOk(FromUtf8Lossy(acc))
    ELSE ScanString(image, sec, i + 1, Append(acc, image[sec.data_offset + i + 1]))

\* Lines 74-94: what string_at(index) returns.
string_at(image, sec, cache, index) ==
    IF index \in DOMAIN cache THEN NtOk(cache[index])
    ELSE IF index >= sec.size THEN NtErr("err", "InvalidIndex")
    ELSE ScanString(image, sec, index, <<>>)

\* Lines 74-94: the cache after string_at(index) has returned res.  No line
\* of string_at writes to self.names.
names_after_string_at_NextKey(cache, index, res) ==
    IF res.st = "ok"
    THEN [k \in DOMAIN cache \cup {index + 1} |->
             IF k = index + 1 THEN res.str ELSE cache[k]]
    ELSE cache

names_after_string_at(cache, index, res) == cache

\* Lines 51-62: compute_extends, pushing onto ext from section offset i on.
RECURSIVE compute_extends(_, _, _, _, _)
compute_extends(image, sec, i, last_index, ext) ==
    IF i >= sec.size THEN [st |-> "ok", extends |-> ext]
    ELSE IF sec.data_offset + i >= Len(image)
    THEN [st |-> "panic", extends |-> ext]
    ELSE IF image[sec.data_offset + i + 1] = 0
    THEN compute_extends(image, sec, i + 1, i + 1, Append(ext, last_index))
    ELSE compute_extends(image, sec, i + 1, last_index, ext)

\* get_extends without the is_empty test of line 66.
get_extends_Recompute(image, sec, ext) ==
    compute_extends(image, sec, 0, 0, ext)

\* Lines 65-71.
get_extends(image, sec, ext) ==
    IF ext = <<>> THEN compute_extends(image, sec, 0, 0, ext)
    ELSE [st |-> "ok", extends |-> ext]

NoRet == [op |-> "none", index |-> 0, st |-> "none", err |-> "", str |-> <<>>,
          list |-> <<>>]

\* The indices string_at is called with: every offset of the section, the
\* two past its end, and offsets before its start down to one before the
\* start of the image.
Indices == (-2..(ntSection.size + 1)) \cup {-ntSection.data_offset - 1}

NtStringAt(index) ==
    /\ ntRet.st # "panic"
    /\ LET r == string_at(ntImage, ntSection, names, index)
       IN  /\ ntRet' = [op |-> "string_at", index |-> index, st |-> r.st,
                        err |-> r.err, str |-> r.str, list |-> <<>>]
           /\ names' = names_after_string_at(names, index, r)
    /\ ntPrev' = ntRet
    /\ UNCHANGED <<ntImage, ntSection, extends>>
    /\ UNCHANGED ntOthers

NtGetExtends ==
    /\ ntRet.st # "panic"
    /\ LET r == get_extends(ntImage, ntSection, extends)
       IN  /\ extends' = r.extends
           /\ ntRet' = [op |-> "get_extends", index |-> 0, st |-> r.st,
                        err |-> "", str |-> <<>>,
                        list |-> IF r.st = "ok" THEN r.extends ELSE <<>>]
    /\ ntPrev' = ntRet
    /\ UNCHANGED <<ntImage, ntSection, names>>
    /\ UNCHANGED ntOthers

NtIdle ==
    /\ ntImage = <<>>
    /\ ntSection = NoSection
    /\ names = <<>>
    /\ extends = <<>>
    /\ ntRet = NoRet
    /\ ntPrev = NoRet

(***************************************************************************)
(* The fixed-row tables (src/v1types/mod.rs, src/sections/mod.rs).         *)
(***************************************************************************)
PublicEntry_SIZE == 8

NativeEntry_SIZE == 4

PubvarEntry_SIZE == 8

TagEntry_SIZE == 8

DebugFileEntry_SIZE == 8

DebugLineEntry_SIZE == 8

\* a & b on non-negative integers.
RECURSIVE BitAnd(_, _)
BitAnd(a, b) ==
    IF a = 0 \/ b = 0 THEN 0
    ELSE (a % 2) * (b % 2) + 2 * BitAnd(a \div 2, b \div 2)

TbOk(entries) == [st |-> "ok", err |-> "", entries |-> entries]

TbErr(s, e) == [st |-> s, err |-> e, entries |-> <<>>]

NoTable == [st |-> "none", err |-> "", entries |-> <<>>]

\* sections/mod.rs lines 25-27: the section's bytes, a slice of the image.
get_data(image, section) ==
    IF section.data_offset + section.size > Len(image)
    THEN [st |-> "panic", data |-> <<>>]
    ELSE [st |-> "ok",
          data |-> Slice(image, section.data_offset,
                         section.data_offset + section.size)]

\* The row loop of PublicEntry::new (lines 143-152), PubvarEntry::new (lines
\* 234-243) and DebugFileEntry::new (lines 367-376): count rows of a u32
\* address and an i32 name offset, the name resolved by string_at.
RECURSIVE AddressNameRows(_, _, _, _, _, _, _)
AddressNameRows(data, pos, count, image, nsec, cache, entries) ==
    IF count = 0 THEN TbOk(entries)
    ELSE IF ~CanRead(data, pos, 4) \/ ~CanRead(data, pos + 4, 4)
    THEN TbErr("err", "Io")
    ELSE LET address     == ReadU32LE(data, pos)
             name_offset == ReadI32LE(data, pos + 4)
             n           == string_at(image, nsec, cache, name_offset)
         IN  IF n.st # "ok" THEN TbErr(n.st, n.err)
             ELSE AddressNameRows(data, pos + 8, count - 1, image, nsec,
                      names_after_string_at(cache, name_offset, n),
                      Append(entries, [address |-> address,
                                       name_offset |-> name_offset,
                                       name |-> n.str]))

\* The row loop of NativeEntry::new (lines 191-198).
RECURSIVE NativeRows(_, _, _, _, _, _, _)
NativeRows(data, pos, count, image, nsec, cache, entries) ==
    IF count = 0 THEN TbOk(entries)
    ELSE IF ~CanRead(data, pos, 4) THEN TbErr("err", "Io")
    ELSE LET name_offset == ReadI32LE(data, pos)
             n           == string_at(image, nsec, cache, name_offset)
         IN  IF n.st # "ok" THEN TbErr(n.st, n.err)
             ELSE NativeRows(data, pos + 4, count - 1, image, nsec,
                      names_after_string_at(cache, name_offset, n),
                      Append(entries, [name_offset |-> name_offset,
                                       name |-> n.str]))

\* The row loop of TagEntry::new (lines 294-303).
RECURSIVE TagRows(_, _, _, _, _, _, _)
TagRows(data, pos, count, image, nsec, cache, entries) ==
    IF count = 0 THEN TbOk(entries)
    ELSE IF ~CanRead(data, pos, 4) \/ ~CanRead(data, pos + 4, 4)
    THEN TbErr("err", "Io")
    ELSE LET tag         == ReadU32LE(data, pos)
             name_offset == ReadI32LE(data, pos + 4)
             n           == string_at(image, nsec, cache, name_offset)
         IN  IF n.st # "ok" THEN TbErr(n.st, n.err)
             ELSE TagRows(data, pos + 8, count - 1, image, nsec,
                      names_after_string_at(cache, name_offset, n),
                      Append(entries, [tag |-> tag,
                                       name_offset |-> name_offset,
                                       name |-> n.str]))

\* The row loop of DebugLineEntry::new (lines 409-417).
RECURSIVE LineRows(_, _, _, _)
LineRows(data, pos, count, entries) ==
    IF count = 0 THEN TbOk(entries)
    ELSE IF ~CanRead(data, pos, 4) \/ ~CanRead(data, pos + 4, 4)
    THEN TbErr("err", "Io")
    ELSE LineRows(data, pos + 8, count - 1,
                  Append(entries, [address |-> ReadU32LE(data, pos),
                                   line |-> ReadU32LE(data, pos + 4)]))

\* v1types lines 129-155.
PublicEntry_new(data, section, image, nsec) ==
    IF BitAnd(section.size, PublicEntry_SIZE) # 0
    THEN TbErr("err", "InvalidSize")
    ELSE AddressNameRows(data, 0, section.size \div PublicEntry_SIZE,
                         image, nsec, <<>>, <<>>)

\* v1types lines 177-201.
NativeEntry_new(data, section, image, nsec) ==
    IF BitAnd(section.size, NativeEntry_SIZE) # 0
    THEN TbErr("err", "InvalidSize")
    ELSE NativeRows(data, 0, section.size \div NativeEntry_SIZE,
                    image, nsec, <<>>, <<>>)

\* v1types lines 220-246.
PubvarEntry_new(data, section, image, nsec) ==
    IF BitAnd(section.size, PubvarEntry_SIZE) # 0
    THEN TbErr("err", "InvalidSize")
    ELSE AddressNameRows(data, 0, section.size \div PubvarEntry_SIZE,
                         image, nsec, <<>>, <<>>)

\* v1types lines 280-306: the size test and the row count use
\* NativeEntry::SIZE, the rows read are 8 bytes each.
TagEntry_new(data, section, image, nsec) ==
    IF BitAnd(section.size, NativeEntry_SIZE) # 0
    THEN TbErr("err", "InvalidSize")
    ELSE TagRows(data, 0, section.size \div NativeEntry_SIZE,
                 image, nsec, <<>>, <<>>)

\* v1types lines 353-379.
DebugFileEntry_new(data, section, image, nsec) ==
    IF BitAnd(section.size, DebugFileEntry_SIZE) # 0
    THEN TbErr("err", "InvalidSize")
    ELSE AddressNameRows(data, 0, section.size \div DebugFileEntry_SIZE,
                         image, nsec, <<>>, <<>>)

\* v1types lines 395-420.
DebugLineEntry_new(data, section) ==
    IF BitAnd(section.size, DebugLineEntry_SIZE) # 0
    THEN TbErr("err", "InvalidSize")
    ELSE LineRows(data, 0, section.size \div DebugLineEntry_SIZE, <<>>)

\* sections/mod.rs: each table's new takes the section's bytes with get_data
\* and hands them to the row constructor.
SMXNativeTable_new(image, section, nsec) ==
    LET d == get_data(image, section)
    IN  IF d.st # "ok" THEN TbErr(d.st, "")
        ELSE NativeEntry_new(d.data, section, image, nsec)

SMXPublicTable_new(image, section, nsec) ==
    LET d == get_data(image, section)
    IN  IF d.st # "ok" THEN TbErr(d.st, "")
        ELSE PublicEntry_new(d.data, section, image, nsec)

SMXPubvarTable_new(image, section, nsec) ==
    LET d == get_data(image, section)
    IN  IF d.st # "ok" THEN TbErr(d.st, "")
        ELSE PubvarEntry_new(d.data, section, image, nsec)

SMXTagTable_new(image, section, nsec) ==
    LET d == get_data(image, section)
    IN  IF d.st # "ok" THEN TbErr(d.st, "")
        ELSE TagEntry_new(d.data, section, image, nsec)

SMXDebugFilesTable_new(image, section, nsec) ==
    LET d == get_data(image, section)
    IN  IF d.st # "ok" THEN TbErr(d.st, "")
        ELSE DebugFileEntry_new(d.data, section, image, nsec)

SMXDebugLinesTable_new(image, section) ==
    LET d == get_data(image, section)
    IN  IF d.st # "ok" THEN TbErr(d.st, "")
        ELSE DebugLineEntry_new(d.data, section)

\* Section names, as file/mod.rs lines 57 and 72-79 match them.
NAMES_SECTION == <<46, 110, 97, 109, 101, 115>>    \* ".names"

NATIVES_SECTION == <<46, 110, 97, 116, 105, 118, 101, 115>>    \* ".natives"

PUBLICS_SECTION == <<46, 112, 117, 98, 108, 105, 99, 115>>    \* ".publics"

PUBVARS_SECTION == <<46, 112, 117, 98, 118, 97, 114, 115>>    \* ".pubvars"

TAGS_SECTION == <<46, 116, 97, 103, 115>>    \* ".tags"

DBG_FILES_SECTION == <<46, 100, 98, 103, 46, 102, 105, 108, 101, 115>>    \* ".dbg.files"

DBG_LINES_SECTION == <<46, 100, 98, 103, 46, 108, 105, 110, 101, 115>>    \* ".dbg.lines"

TbBuild(name, res) ==
    /\ tbRes.st = "none"
    /\ tbSection.name = name
    /\ tbRes' = res
    /\ UNCHANGED <<tbImage, tbNames, tbSection>>
    /\ UNCHANGED tbOthers

TbNatives ==
    TbBuild(NATIVES_SECTION, SMXNativeTable_new(tbImage, tbSection, tbNames))

TbPublics ==
    TbBuild(PUBLICS_SECTION, SMXPublicTable_new(tbImage, tbSection, tbNames))

TbPubvars ==
    TbBuild(PUBVARS_SECTION, SMXPubvarTable_new(tbImage, tbSection, tbNames))

TbTags ==
    TbBuild(TAGS_SECTION, SMXTagTable_new(tbImage, tbSection, tbNames))

TbDebugFiles ==
    TbBuild(DBG_FILES_SECTION,
            SMXDebugFilesTable_new(tbImage, tbSection, tbNames))

TbDebugLines ==
    TbBuild(DBG_LINES_SECTION, SMXDebugLinesTable_new(tbImage, tbSection))

TbIdle ==
    /\ tbImage = <<>>
    /\ tbNames = NoSection
    /\ tbSection = NoSection
    /\ tbRes = NoTable

(***************************************************************************)
(* The section headers of ".code", ".data" and ".dbg.info"                 *)
(* (src/v1types/mod.rs, src/sections/mod.rs).                              *)
(***************************************************************************)
SecOk(v) == [st |-> "ok", err |-> "", v |-> v]

SecFail(s, e) == [st |-> s, err |-> e, v |-> <<>>]

\* v1types lines 47-73.
CodeV1Header_new(data) ==
    IF ~CanRead(data, 0, 16) THEN SecFail("err", "Io")
    ELSE IF ReadU8(data, 5) >= 13 /\ ~CanRead(data, 16, 4)
    THEN SecFail("err", "Io")
    ELSE SecOk([code_size |-> ReadI32LE(data, 0),
                cell_size |-> ReadU8(data, 4),
                code_version |-> ReadU8(data, 5),
                flags |-> ReadU16LE(data, 6),
                main_offset |-> ReadI32LE(data, 8),
                code_offset |-> ReadI32LE(data, 12),
                features |-> 0])

\* v1types lines 99-110.
DataHeader_new(data) ==
    IF ~CanRead(data, 0, 12) THEN SecFail("err", "Io")
    ELSE SecOk([data_size |-> ReadU32LE(data, 0),
                memory_size |-> ReadU32LE(data, 4),
                data_offset |-> ReadU32LE(data, 8)])

\* v1types lines 322-334.
DebugInfoHeader_new(data) ==
    IF ~CanRead(data, 0, 16) THEN SecFail("err", "Io")
    ELSE SecOk([file_count |-> ReadI32LE(data, 0),
                line_count |-> ReadI32LE(data, 4),
                symbol_count |-> ReadI32LE(data, 8),
                array_count |-> ReadI32LE(data, 12)])

\* sections/mod.rs lines 385-393.
SMXCodeV1Section_new(image, section) ==
    LET d == get_data(image, section)
    IN  IF d.st # "ok" THEN SecFail(d.st, "")
        ELSE LET h == CodeV1Header_new(d.data)
             IN  IF h.st # "ok" THEN h
                 ELSE SecOk([section |-> section, code_header |-> h.v])

\* sections/mod.rs lines 355-363.
SMXDataSection_new(image, section) ==
    LET d == get_data(image, section)
    IN  IF d.st # "ok" THEN SecFail(d.st, "")
        ELSE LET h == DataHeader_new(d.data)
             IN  IF h.st # "ok" THEN h
                 ELSE SecOk([section |-> section, data_header |-> h.v])

\* sections/mod.rs lines 417-424.
SMXDebugInfoSection_new(image, section) ==
    LET d == get_data(image, section)
    IN  IF d.st # "ok" THEN SecFail(d.st, "")
        ELSE DebugInfoHeader_new(d.data)

\* sections/mod.rs lines 405-407.
code_start(header, code) == header.data_offset + code.code_header.code_offset

(***************************************************************************)
(* The container's function queries (src/file/mod.rs) and the discovered-  *)
(* functions table (src/sections/mod.rs).                                  *)
(***************************************************************************)
Some(v) == [some |-> TRUE, v |-> v]

None == [some |-> FALSE, v |-> <<>>]

HexDigit(d) == IF d < 10 THEN 48 + d ELSE 87 + d

\* format!("{:x}", addr) of a u32 held as an i32: the eight hexadecimal
\* digits of the bit pattern without the leading zeros.
LowerHex(a) ==
    LET digit(k) == (a \div (16 ^ k)) % 16
        top == IF \E k \in 0..7 : digit(k) # 0
               THEN CHOOSE k \in 0..7 :
                        digit(k) # 0 /\ \A j \in (k + 1)..7 : digit(j) = 0
               ELSE 0
    IN  [i \in 1..(top + 1) |-> HexDigit(digit(top + 1 - i))]

\* "sub_"
SUB_PREFIX == <<115, 117, 98, 95>>

\* "unknown"
UNKNOWN_NAME == <<117, 110, 107, 110, 111, 119, 110>>

\* The entry is put before the others.
add_function_Front(functions, addr) ==
    <<[address |-> addr, name |-> SUB_PREFIX \o LowerHex(addr)]>> \o functions

\* sections/mod.rs lines 171-176.
add_function(functions, addr) ==
    Append(functions, [address |-> addr, name |-> SUB_PREFIX \o LowerHex(addr)])

\* Only ".publics" is searched.
is_function_at_address_PublicsOnly(f, addr) ==
    f.publics.some /\ \E i \in DOMAIN f.publics.v : f.publics.v[i].address = addr

\* file/mod.rs lines 159-179.
is_function_at_address(f, addr) ==
    \/ f.publics.some /\ \E i \in DOMAIN f.publics.v : f.publics.v[i].address = addr
    \/ f.called_functions.some
         /\ \E i \in DOMAIN f.called_functions.v :
               f.called_functions.v[i].address = addr

\* The first entry of a table with this address.
FirstAt(entries, addr) ==
    LET hits == {i \in DOMAIN entries : entries[i].address = addr}
    IN  entries[CHOOSE i \in hits : \A j \in hits : i <= j]

\* file/mod.rs lines 139-157.
find_function_name(f, addr) ==
    IF f.publics.some /\ \E i \in DOMAIN f.publics.v : f.publics.v[i].address = addr
    THEN FirstAt(f.publics.v, addr).name
    ELSE IF f.called_functions.some
            /\ \E i \in DOMAIN f.called_functions.v :
                  f.called_functions.v[i].address = addr
    THEN FirstAt(f.called_functions.v, addr).name
    ELSE UNKNOWN_NAME

(***************************************************************************)
(* The disassembler (src/v1disassembler/mod.rs).                           *)
(***************************************************************************)
\* Lines 47-176: the number of params of each entry of opcode_list, in the
\* order the entries are pushed.
opcode_list ==
    <<
      0, 1, 1, 1, 0, 1, 0, 1, 2, 2, 1, 1, 2, 1, 0, 0, 0, 1, 0, 1,
      1, 1, 1, 1, 1, 1, 0, 1, 1, 0, 0, 0, 1, 0, 1, 1, 1, 1, 1, 1,
      1, 1, 1, 0, 1, 1, 2, 0, 1, 1, 2, 1, 1, 1, 1, 0, 0, 1, 0, 0,
      0, 0, 0, 0, 0, 0, 0, 0, 1, 2, 3, 4, 5, 1, 2, 3, 4, 5, 1, 2,
      3, 4, 5, 1, 2, 3, 4, 5, 0, 0, 0, 0, 0, 0, 1, 1, 0, 1, 1, 0,
      0, 0, 1, 1, 1, 0, 1, 1, 0, 1, 1, 1, 0, 1, 0, 0, 0, 0, 1, 1,
      2, 0, 1, 0, 0, 1, 0, 0, 1, 3 >>

\* An opcode's ordinal is its index in the descriptor table; ENDPROC, which
\* the table does not hold, follows the last entry.
V1OPCode_ADD == 0

V1OPCode_CALL == 7

V1OPCode_CASETBL == 8

V1OPCode_CONST == 9

V1OPCode_NOP == 60

V1OPCode_PROC == 65

V1OPCode_RETN == 88

V1OPCode_ENDPROC == 130

\* The ordinals V1OPCode::try_from accepts.
V1OPCode_valid(byte) == byte >= 0 /\ byte <= V1OPCode_ENDPROC

DasmOk(insns, functions) ==
    [st |-> "ok", err |-> "", insns |-> insns, functions |-> functions]

DasmFail(s, e, functions) ==
    [st |-> s, err |-> e, insns |-> <<>>, functions |-> functions]

NOT_PROC == "Function does not start with PROC"

\* Lines 205-211: the cell at code_start + offset of the image.
read_at(d, offset) ==
    IF d.code_start + offset < 0 \/ ~CanRead(d.data, d.code_start + offset, 4)
    THEN [st |-> "err", val |-> 0]
    ELSE [st |-> "ok", val |-> ReadI32LE(d.data, d.code_start + offset)]

\* No cell is read: the cursor moves on and the operands stay empty.
ReadCells_Drop(d, cursor, n, vals) ==
    [st |-> "ok", vals |-> vals, cursor |-> cursor + 4 * n]

\* One cell is read and the cursor moves past n.
ReadCells_First(d, cursor, n, vals) ==
    [st |-> "ok", cursor |-> cursor + 4 * n,
     vals |-> IF n = 0 THEN vals ELSE Append(vals, read_at(d, cursor).val)]

\* n calls of read_next (lines 213-217) from cursor on.
RECURSIVE ReadCells(_, _, _, _)
ReadCells(d, cursor, n, vals) ==
    IF n = 0 THEN [st |-> "ok", vals |-> vals, cursor |-> cursor]
    ELSE Let(read_at(d, cursor), LAMBDA r :
             IF r.st # "ok" THEN [st |-> "err", vals |-> vals, cursor |-> cursor]
             ELSE Let(<<cursor + 4, n - 1, Append(vals, r.val)>>, LAMBDA a :
                      ReadCells(d, a[1], a[2], a[3])))

\* Lines 229-278: the loop of diassemble_internal, from cursor on.  f is the
\* container, functions its discovered-functions table.
RECURSIVE DasmLoop(_, _, _, _, _)
DasmLoop(d, f, cursor, insns, functions) ==
    IF cursor >= d.cursor_limit THEN DasmOk(insns, functions)
    ELSE
    Let(read_at(d, cursor), LAMBDA r :
        IF r.st # "ok" THEN DasmFail("err", "Io", functions)
        ELSE IF r.val = V1OPCode_PROC \/ r.val = V1OPCode_ENDPROC
        THEN DasmOk(insns, functions)
        ELSE IF r.val < 0 \/ r.val >= Len(opcode_list)
        THEN DasmFail("panic", "", functions)
        ELSE IF r.val = V1OPCode_CASETBL
        THEN Let(read_at(d, cursor + 4), LAMBDA n :
                 IF n.st # "ok" THEN DasmFail("err", "Io", functions)
                 ELSE IF n.val < 0 \/ n.val >= 1073741823
                 THEN DasmFail("panic", "", functions)
                 ELSE Let(ReadCells(d, cursor + 8, 2 * n.val + 1, <<>>), LAMBDA c :
                          IF c.st # "ok" THEN DasmFail("err", "Io", functions)
                          ELSE Let(Append(insns, [address |-> cursor,
                                                  opcode |-> r.val,
                                                  params |-> <<n.val>> \o c.vals]),
                                   LAMBDA is :
                                       DasmLoop(d, f, c.cursor, is, functions))))
        ELSE Let(ReadCells(d, cursor + 4, opcode_list[r.val + 1], <<>>), LAMBDA c :
                 IF c.st # "ok" THEN DasmFail("err", "Io", functions)
                 ELSE IF r.val = V1OPCode_CALL /\ c.vals = <<>>
                 THEN DasmFail("panic", "", functions)
                 ELSE Let(<<Append(insns, [address |-> cursor, opcode |-> r.val,
                                           params |-> c.vals]),
                            IF r.val = V1OPCode_CALL
                               /\ ~is_function_at_address(
                                      [f EXCEPT !.called_functions = Some(functions)],
                                      c.vals[1])
                            THEN add_function(functions, c.vals[1])
                            ELSE functions>>,
                          LAMBDA a : DasmLoop(d, f, c.cursor, a[1], a[2]))))

\* Lines 194-203: V1Disassembler::new.
V1Disassembler_new(f, code) ==
    [data |-> f.header.data,
     code_start |-> code_start(f.header, code),
     cursor_limit |-> code.code_header.code_size]

\* Lines 280-289 and 223-227: the disassembler over the image, and the
\* first cell, which read_next_op narrows to a byte.
diassemble(f, code, proc_offset) ==
    Let(<<V1Disassembler_new(f, code), f.called_functions.v, f>>, LAMBDA a :
        LET d == a[1]
            functions == a[2]
        IN  Let(read_at(d, proc_offset), LAMBDA r :
                IF r.st # "ok" THEN DasmFail("err", "Io", functions)
                ELSE IF ~V1OPCode_valid(r.val % 256)
                THEN DasmFail("panic", "", functions)
                ELSE IF r.val % 256 # V1OPCode_PROC
                THEN DasmFail("err", NOT_PROC, functions)
                ELSE DasmLoop(d, a[3], proc_offset + 4, <<>>, functions)))

(***************************************************************************)
(* SMXFile::new (src/file/mod.rs lines 45-113).                            *)
(*                                                                         *)
(* Every assignment to a field of the container goes through               *)
(* file.borrow_mut() while a file.borrow() of the same statement or of the *)
(* enclosing for loop is alive; the tables of src/sections and the         *)
(* disassembler are written against a container without a RefCell.  Both   *)
(* outcomes are kept: the assignment is made, or the borrow is refused     *)
(* and the call aborts.                                                    *)
(***************************************************************************)
CODE_SECTION == <<46, 99, 111, 100, 101>>    \* ".code"

DATA_SECTION == <<46, 100, 97, 116, 97>>    \* ".data"

DBG_STRINGS_SECTION == <<46, 100, 98, 103, 46, 115, 116, 114, 105, 110, 103, 115>>    \* ".dbg.strings"

DBG_INFO_SECTION == <<46, 100, 98, 103, 46, 105, 110, 102, 111>>    \* ".dbg.info"

\* Lines 49-53: the container after the header is loaded.
NewFile(h) ==
    [header |-> h, unknown_sections |-> <<>>, names |-> None,
     debug_names |-> None, natives |-> None, publics |-> None,
     pubvars |-> None, tags |-> None, data |-> None, codev1 |-> None,
     called_functions |-> Some(<<>>), debug_info |-> None,
     debug_files |-> None, debug_lines |-> None]

NoFile == NewFile(NoHeader)

FOk(f) == [st |-> "ok", err |-> "", file |-> f]

FFail(s, e, f) == [st |-> s, err |-> e, file |-> f]

\* file.borrow_mut().field = value
Assign(f, field, value, granted) ==
    IF granted THEN FOk([f EXCEPT ![field] = value])
    ELSE FFail("panic", "BorrowMutError", f)

\* Lines 56-61: one iteration of the first pass.
Pass1Arm(f, section, granted) ==
    IF section.name = NAMES_SECTION
    THEN Assign(f, "names", Some(section), granted)
    ELSE IF section.name = DBG_STRINGS_SECTION
    THEN Assign(f, "debug_names", Some(section), granted)
    ELSE IF section.name = DBG_INFO_SECTION
    THEN LET r == SMXDebugInfoSection_new(f.header.data, section)
         IN  IF r.st # "ok" THEN FFail(r.st, r.err, f)
             ELSE Assign(f, "debug_info", Some(r.v), granted)
    ELSE FOk(f)

\* An arm of the second pass that hands the ".names" table to a table
\* constructor: names.as_ref().unwrap(), the constructor, the assignment.
NamedTableArm(f, field, res, granted) ==
    IF ~f.names.some THEN FFail("panic", "unwrap", f)
    ELSE IF res.st # "ok" THEN FFail(res.st, res.err, f)
    ELSE Assign(f, field, Some(res.entries), granted)

\* An arm of the second pass whose constructor takes no name table.
PlainArm(f, field, res, value, granted) ==
    IF res.st # "ok" THEN FFail(res.st, res.err, f)
    ELSE Assign(f, field, Some(value), granted)

\* Lines 70-95: one iteration of the second pass, for the sections whose
\* tables are modelled here; the arms of lines 81-93 (".dbg.methods",
\* ".dbg.globals", ".dbg.locals", "rtti.*") take sections no input holds.
Pass2Arm(f, section, granted) ==
    LET image == f.header.data
        nsec  == IF f.names.some THEN f.names.v ELSE NoSection
        name  == section.name
    IN  IF name \in {NAMES_SECTION, DBG_STRINGS_SECTION, DBG_INFO_SECTION}
        THEN FOk(f)
        ELSE IF name = NATIVES_SECTION
        THEN NamedTableArm(f, "natives",
                 SMXNativeTable_new(image, section, nsec), granted)
        ELSE IF name = PUBLICS_SECTION
        THEN NamedTableArm(f, "publics",
                 SMXPublicTable_new(image, section, nsec), granted)
        ELSE IF name = PUBVARS_SECTION
        THEN NamedTableArm(f, "pubvars",
                 SMXPubvarTable_new(image, section, nsec), granted)
        ELSE IF name = TAGS_SECTION
        THEN NamedTableArm(f, "tags",
                 SMXTagTable_new(image, section, nsec), granted)
        ELSE IF name = DATA_SECTION
        THEN LET r == SMXDataSection_new(image, section)
             IN  PlainArm(f, "data", r, r.v, granted)
        ELSE IF name = CODE_SECTION
        THEN LET r == SMXCodeV1Section_new(image, section)
             IN  PlainArm(f, "codev1", r, r.v, granted)
        ELSE IF name = DBG_FILES_SECTION
        THEN NamedTableArm(f, "debug_files",
                 SMXDebugFilesTable_new(image, section, nsec), granted)
        ELSE IF name = DBG_LINES_SECTION
        THEN LET r == SMXDebugLinesTable_new(image, section)
             IN  PlainArm(f, "debug_lines", r, r.entries, granted)
        ELSE Assign(f, "unknown_sections",
                    Append(f.unknown_sections, section), granted)

NoFileResult == [st |-> "none", err |-> ""]

\* A failing step leaves SMXFile::new where it is.
FileStop_Stay(r) == fpc' = fpc /\ fRes' = fRes

\* SMXFile::new stops with the value or the abort of a step.
FileStop(r) ==
    /\ fpc' = "done"
    /\ fRes' = [st |-> r.st, err |-> r.err]

\* Lines 51-53.
FileLoadHeader ==
    /\ fpc = "header"
    /\ LET r == SMXHeader_new(fInput)
       IN  IF r.st = "ok"
           THEN /\ file' = NewFile(r.header)
                /\ fpc' = "pass1"
                /\ fRes' = fRes
           ELSE /\ file' = file
                /\ FileStop(r)
    /\ UNCHANGED <<fInput, fidx, fsnap>>
    /\ UNCHANGED fileOthers

\* Lines 55-62, one section.
FilePass1 ==
    /\ fpc = "pass1"
    /\ fidx < Len(file.header.sections)
    /\ \E granted \in BOOLEAN :
          LET r == Pass1Arm(file, file.header.sections[fidx + 1], granted)
          IN  /\ file' = r.file
              /\ IF r.st = "ok"
                 THEN fidx' = fidx + 1 /\ UNCHANGED <<fpc, fRes>>
                 ELSE fidx' = fidx /\ FileStop(r)
    /\ UNCHANGED <<fInput, fsnap>>
    /\ UNCHANGED fileOthers

\* Lines 64-66.
FileAliasDebugNames ==
    /\ fpc = "pass1"
    /\ fidx = Len(file.header.sections)
    /\ \E granted \in BOOLEAN :
          LET r == IF ~file.debug_names.some
                   THEN Assign(file, "debug_names", file.names, granted)
                   ELSE FOk(file)
          IN  /\ file' = r.file
              /\ IF r.st = "ok"
                 THEN fpc' = "pass2" /\ fidx' = 0 /\ fRes' = fRes
                 ELSE fidx' = fidx /\ FileStop(r)
    /\ UNCHANGED <<fInput, fsnap>>
    /\ UNCHANGED fileOthers

\* Lines 69-96, one section.
FilePass2 ==
    /\ fpc = "pass2"
    /\ fidx < Len(file.header.sections)
    /\ \E granted \in BOOLEAN :
          LET r == Pass2Arm(file, file.header.sections[fidx + 1], granted)
          IN  /\ file' = r.file
              /\ IF r.st = "ok"
                 THEN fidx' = fidx + 1 /\ UNCHANGED <<fpc, fRes>>
                 ELSE fidx' = fidx /\ FileStop(r)
    /\ UNCHANGED <<fInput, fsnap>>
    /\ UNCHANGED fileOthers

\* The end of the loop of lines 69-96.
FileEndPass2 ==
    /\ fpc = "pass2"
    /\ fidx = Len(file.header.sections)
    /\ fpc' = "publics"
    /\ fidx' = 0
    /\ UNCHANGED <<fInput, file, fsnap, fRes>>
    /\ UNCHANGED fileOthers

\* Lines 100-104, one public: codev1.as_ref().unwrap(), then diassemble.
FileDisassemblePublic ==
    /\ fpc = "publics"
    /\ file.publics.some
    /\ fidx < Len(file.publics.v)
    /\ IF ~file.codev1.some
       THEN /\ FileStop([st |-> "panic", err |-> "unwrap"])
            /\ UNCHANGED <<fidx, file>>
       ELSE LET r == diassemble(file, file.codev1.v,
                                file.publics.v[fidx + 1].address)
            IN  /\ file' = [file EXCEPT !.called_functions = Some(r.functions)]
                /\ IF r.st = "ok"
                   THEN fidx' = fidx + 1 /\ UNCHANGED <<fpc, fRes>>
                   ELSE fidx' = fidx /\ FileStop(r)
    /\ UNCHANGED <<fInput, fsnap>>
    /\ UNCHANGED fileOthers

\* The end of the loop of lines 100-104 and the head of the loop of lines
\* 106-110, which takes the entries of called_functions.
FileEndPublics ==
    /\ fpc = "publics"
    /\ ~file.publics.some \/ fidx = Len(file.publics.v)
    /\ fpc' = "called"
    /\ fidx' = 0
    /\ fsnap' = file.called_functions.v
    /\ UNCHANGED <<fInput, file, fRes>>
    /\ UNCHANGED fileOthers

\* Lines 106-110, one discovered function.  The loop holds
\* called_functions.borrow(); an add_function inside it asks for
\* borrow_mut().
FileDisassembleCalled ==
    /\ fpc = "called"
    /\ fidx < Len(fsnap)
    /\ IF ~file.codev1.some
       THEN /\ FileStop([st |-> "panic", err |-> "unwrap"])
            /\ UNCHANGED <<fidx, file>>
       ELSE LET r == diassemble(file, file.codev1.v, fsnap[fidx + 1].address)
            IN  \E granted \in BOOLEAN :
                   IF r.functions # file.called_functions.v /\ ~granted
                   THEN /\ FileStop([st |-> "panic", err |-> "BorrowMutError"])
                        /\ UNCHANGED <<fidx, file>>
                   ELSE /\ file' = [file EXCEPT
                                       !.called_functions = Some(r.functions)]
                        /\ IF r.st = "ok"
                           THEN fidx' = fidx + 1 /\ UNCHANGED <<fpc, fRes>>
                           ELSE fidx' = fidx /\ FileStop(r)
    /\ UNCHANGED <<fInput, fsnap>>
    /\ UNCHANGED fileOthers

\* Line 112.
FileReturn ==
    /\ fpc = "called"
    /\ fidx = Len(fsnap)
    /\ fpc' = "done"
    /\ fRes' = [st |-> "ok", err |-> ""]
    /\ UNCHANGED <<fInput, fidx, file, fsnap>>
    /\ UNCHANGED fileOthers

FileIdle ==
    /\ fInput = <<>>
    /\ fpc = "idle"
    /\ fidx = 0
    /\ file = NoFile
    /\ fsnap = <<>>
    /\ fRes = NoFileResult

(***************************************************************************)
(* Containers for the tables: a directory, the section names, then the     *)
(* sections' bytes one after the other.  secs is a sequence of            *)
(* [name, data, size]: size is the size the directory declares.            *)
(***************************************************************************)
RECURSIVE SumLen(_, _)
SumLen(ss, n) == IF n = 0 THEN 0 ELSE SumLen(ss, n - 1) + Len(ss[n])

TableContainer(secs) ==
    LET n      == Len(secs)
        nm     == [i \in 1..n |-> secs[i].name \o <<0>>]
        dt     == [i \in 1..n |-> secs[i].data]
        stoff  == HEADER_SIZE + 12 * n
        start  == stoff + SumLen(nm, n)
        total  == start + SumLen(dt, n)
    IN  I32LE(FILE_MAGIC) \o U16LE(SP1_VERSION_1_0 + 1) \o <<0>> \o I32LE(total)
            \o I32LE(total) \o <<n>> \o I32LE(stoff) \o I32LE(start)
            \o Flatten([i \in 1..n |->
                   I32LE(SumLen(nm, i - 1)) \o I32LE(start + SumLen(dt, i - 1))
                       \o I32LE(secs[i].size)])
            \o Flatten(nm) \o Flatten(dt)

MaxOverhang == 1

\* String pools: "foo\0bar\0baz\0", one with an empty string, a 0xFF byte and
\* no final NUL, one starting with a NUL, and the empty pool.
NamePools ==
    {<<102, 111, 111, 0, 98, 97, 114, 0, 98, 97, 122, 0>>,
     <<97, 0, 0, 255, 98>>,
     <<0, 99, 0>>,
     <<120>>,
     <<>>}

\* A ".names" section over a pool, declared dsize bytes long, after a section
\* of two bytes that holds no NUL.
NamesContainer(pool, dsize) ==
    TableContainer(<<[name |-> <<120>>, data |-> <<7, 8>>, size |-> 2],
                     [name |-> NAMES_SECTION, data |-> pool, size |-> dsize]>>)

NtInit ==
    /\ \E pool \in NamePools : \E over \in 0..MaxOverhang :
          LET h == SMXHeader_new(NamesContainer(pool, Len(pool) + over)).header
          IN  /\ ntImage = h.data
              /\ ntSection = h.sections[2]
    /\ names = <<>>
    /\ extends = <<>>
    /\ ntRet = NoRet
    /\ ntPrev = NoRet

NtNext == (\E index \in Indices : NtStringAt(index)) \/ NtGetExtends

(***************************************************************************)
(* The inputs of the table constructors: a container of ".names" and one   *)
(* table section of S bytes, rows written one after the other and cut at   *)
(* S bytes.                                                                *)
(***************************************************************************)
MaxTableBytes == 17

\* "foo\0bar\0baz\0"
FooBarBaz == <<102, 111, 111, 0, 98, 97, 114, 0, 98, 97, 122, 0>>

TableSectionNames ==
    {NATIVES_SECTION, PUBLICS_SECTION, PUBVARS_SECTION, TAGS_SECTION,
     DBG_FILES_SECTION, DBG_LINES_SECTION}

\* Rows name "foo", "bar", "baz" in turn ("good"), or carry a name offset
\* one past the pool ("badname").
RowVariants == {"good", "badname"}

RowNameOffset(r, variant) ==
    IF variant = "good" THEN 4 * (r % 3) ELSE Len(FooBarBaz)

\* Row r (0-based) of a table section: address (or tag) 0x100 + r.
RowBytes(name, r, variant) ==
    IF name = NATIVES_SECTION THEN I32LE(RowNameOffset(r, variant))
    ELSE IF name = DBG_LINES_SECTION THEN I32LE(256 + r) \o I32LE(10 + r)
    ELSE I32LE(256 + r) \o I32LE(RowNameOffset(r, variant))

TableBytes(name, S, variant) ==
    SubSeq(Flatten([r \in 1..(S \div 4 + 1) |-> RowBytes(name, r - 1, variant)]),
           1, S)

TablesContainer(name, S, variant) ==
    TableContainer(<<[name |-> NAMES_SECTION, data |-> FooBarBaz,
                      size |-> Len(FooBarBaz)],
                     [name |-> name, data |-> TableBytes(name, S, variant),
                      size |-> S]>>)

TbInit ==
    /\ \E name \in TableSectionNames : \E S \in 0..MaxTableBytes :
       \E variant \in RowVariants :
          LET h == SMXHeader_new(TablesContainer(name, S, variant)).header
          IN  /\ tbImage = h.data
              /\ tbNames = h.sections[1]
              /\ tbSection = h.sections[2]
    /\ tbRes = NoTable

TbNext ==
    \/ TbNatives
    \/ TbPublics
    \/ TbPubvars
    \/ TbTags
    \/ TbDebugFiles
    \/ TbDebugLines

(***************************************************************************)
(* The inputs of SMXFile::new: containers of ".names", ".publics" of n     *)
(* rows, ".code" and a section of an unknown name, each present or not,    *)
(* the code section first or last.                                         *)
(***************************************************************************)
MaxPublics == 2

Cells(cs) == Flatten([i \in 1..Len(cs) |-> I32LE(cs[i])])

\* Two procedures, at 0 and at 16.
RetnBlob ==
    Cells(<<V1OPCode_PROC, V1OPCode_RETN, V1OPCode_NOP, V1OPCode_NOP,
            V1OPCode_PROC, V1OPCode_RETN>>)

\* Procedures at 0, 16, 32 and 48: the one at 0 calls 32, the one at 32
\* calls 48.
CallBlob ==
    Cells(<<V1OPCode_PROC, V1OPCode_CALL, 32, V1OPCode_RETN,
            V1OPCode_PROC, V1OPCode_RETN, V1OPCode_NOP, V1OPCode_NOP,
            V1OPCode_PROC, V1OPCode_CALL, 48, V1OPCode_RETN,
            V1OPCode_PROC, V1OPCode_RETN>>)

\* A procedure holding a cell that is no opcode.
BadBlob == Cells(<<V1OPCode_PROC, 200, V1OPCode_RETN>>)

\* Procedures at 0, 16 and 48: the one at 0 calls the one at 16, which is
\* in ".publics" when that table has two rows; the one at 16 calls 48 twice;
\* the one at 48 calls itself.
RecallBlob ==
    Cells(<<V1OPCode_PROC, V1OPCode_CALL, 16, V1OPCode_RETN,
            V1OPCode_PROC, V1OPCode_CALL, 48, V1OPCode_CALL, 48, V1OPCode_RETN,
            V1OPCode_NOP, V1OPCode_NOP,
            V1OPCode_PROC, V1OPCode_CALL, 48, V1OPCode_RETN>>)

\* PROC, ADD, RETN.
AddBlob == Cells(<<V1OPCode_PROC, V1OPCode_ADD, V1OPCode_RETN>>)

\* Operand counts 2, 1 and 0, then ENDPROC before the end of the blob.
ArityBlob ==
    Cells(<<V1OPCode_PROC, V1OPCode_CONST, 7, 9, V1OPCode_CALL, 172,
            V1OPCode_ADD, V1OPCode_ENDPROC, V1OPCode_RETN>>)

\* First cells that differ from PROC above the low byte only (at 0 and 16),
\* and a first cell whose low byte is no ordinal (at 28).
WideBlob ==
    Cells(<<V1OPCode_PROC + 256, V1OPCode_RETN, V1OPCode_PROC, V1OPCode_RETN,
            V1OPCode_PROC - 256, V1OPCode_RETN, V1OPCode_ENDPROC,
            200, V1OPCode_RETN>>)

\* Case tables of 0, 1 and 2 cases, in procedures at 0, 20 and 48.
CaseBlob ==
    Cells(<<V1OPCode_PROC, V1OPCode_CASETBL, 0, 16, V1OPCode_RETN,
            V1OPCode_PROC, V1OPCode_CASETBL, 1, 44, 5, 40, V1OPCode_RETN,
            V1OPCode_PROC, V1OPCode_CASETBL, 2, 80, -1, 72, 6, 76,
            V1OPCode_RETN>>)

\* A negative case count (at 0) and one the blob does not hold (at 16).
CaseBadBlob ==
    Cells(<<V1OPCode_PROC, V1OPCode_CASETBL, -1, 0,
            V1OPCode_PROC, V1OPCode_CASETBL, 1000, 0>>)

CodeKinds == {"none", "retn", "call", "bad", "recall"}

BlobOf(kind) ==
    CASE kind = "retn" -> RetnBlob
      [] kind = "call" -> CallBlob
      [] kind = "recall" -> RecallBlob
      [] kind = "add" -> AddBlob
      [] kind = "arity" -> ArityBlob
      [] kind = "wide" -> WideBlob
      [] kind = "case" -> CaseBlob
      [] kind = "casebad" -> CaseBadBlob
      [] OTHER -> BadBlob

\* A ".code" section: the 16-byte header (cell size 4, code version 9, code
\* offset 16), then the blob.
CodeSectionBytes(blob) ==
    I32LE(Len(blob)) \o <<4, 9>> \o U16LE(0) \o I32LE(0) \o I32LE(16) \o blob

\* Row r (0-based) of ".publics": the procedure at 16 r, named "foo", "bar",
\* "baz" in turn.
PublicRow(r) == I32LE(16 * r) \o I32LE(4 * (r % 3))

FileContainer(hasNames, n, kind, extra, codeFirst) ==
    LET nm == IF hasNames
              THEN <<[name |-> NAMES_SECTION, data |-> FooBarBaz,
                      size |-> Len(FooBarBaz)]>>
              ELSE <<>>
        pb == IF n >= 0
              THEN <<[name |-> PUBLICS_SECTION,
                      data |-> Flatten([r \in 1..n |-> PublicRow(r - 1)]),
                      size |-> 8 * n]>>
              ELSE <<>>
        cd == IF kind # "none"
              THEN <<[name |-> CODE_SECTION,
                      data |-> CodeSectionBytes(BlobOf(kind)),
                      size |-> 16 + Len(BlobOf(kind))]>>
              ELSE <<>>
        ex == IF extra THEN <<[name |-> <<120>>, data |-> <<7, 8>>, size |-> 2]>>
              ELSE <<>>
    IN  TableContainer(IF codeFirst THEN cd \o nm \o pb \o ex
                       ELSE nm \o pb \o cd \o ex)

\* ".code", ".names" and a ".publics" section of two rows that the directory
\* declares four rows long, past the end of the image.
OverhangContainer ==
    TableContainer(<<[name |-> CODE_SECTION, data |-> CodeSectionBytes(RetnBlob),
                      size |-> 16 + Len(RetnBlob)],
                     [name |-> NAMES_SECTION, data |-> FooBarBaz,
                      size |-> Len(FooBarBaz)],
                     [name |-> PUBLICS_SECTION,
                      data |-> PublicRow(0) \o PublicRow(1), size |-> 32]>>)

\* An input one byte shorter than its image_size.
Truncated(container) == SubSeq(container, 1, Len(container) - 1)

FileInputs ==
    {FileContainer(hasNames, n, kind, extra, codeFirst) :
        hasNames \in BOOLEAN, n \in (-1)..MaxPublics, kind \in CodeKinds,
        extra \in BOOLEAN, codeFirst \in BOOLEAN}
    \cup {OverhangContainer,
          Truncated(FileContainer(TRUE, 2, "retn", FALSE, TRUE))}

FileInit ==
    /\ fInput \in FileInputs
    /\ fpc = "header"
    /\ fidx = 0
    /\ file = NoFile
    /\ fsnap = <<>>
    /\ fRes = NoFileResult

FileNext ==
    \/ FileLoadHeader
    \/ FilePass1
    \/ FileAliasDebugNames
    \/ FilePass2
    \/ FileEndPass2
    \/ FileDisassemblePublic
    \/ FileEndPublics
    \/ FileDisassembleCalled
    \/ FileReturn

(***************************************************************************)
(* Tag and the flag bits of TagEntry (src/sections/mod.rs lines 247-278,   *)
(* src/v1types/mod.rs lines 266-278).                                      *)
(***************************************************************************)
\* Bit k (0..30) of a 32-bit word; bit 31 is the sign.
Bit(x, k) == (x \div (2 ^ k)) % 2

MinI32 == (-2147483647) - 1

RECURSIVE AndBits(_, _, _)
AndBits(a, b, k) ==
    IF k < 0 THEN 0
    ELSE Bit(a, k) * Bit(b, k) * (2 ^ k) + AndBits(a, b, k - 1)

\* a & b, !a and a | b on 32-bit words.
And32(a, b) == AndBits(a, b, 30) + (IF a < 0 /\ b < 0 THEN MinI32 ELSE 0)

Not32(a) == (-1) - a

Or32(a, b) == Not32(And32(Not32(a), Not32(b)))

\* v1types lines 266-278: FIXED | FUNC | OBJECT | ENUM | METHODMAP | STRUCT.
TagEntry_FLAGMASK ==
    1073741824 + 536870912 + 268435456 + 134217728 + 67108864 + 33554432

\* sections/mod.rs lines 253-257.
Tag_new(entry) == [entry |-> entry]

\* The id taken with the mask instead of its complement.
Tag_id_Masked(t) == And32(t.entry.tag, TagEntry_FLAGMASK)

\* sections/mod.rs lines 259-261.
Tag_id(t) == And32(t.entry.tag, Not32(TagEntry_FLAGMASK))

\* sections/mod.rs lines 263-265.
Tag_value(t) == t.entry.tag

\* sections/mod.rs lines 267-269.
Tag_flags(t) == And32(t.entry.tag, TagEntry_FLAGMASK)

NoTagRet == [op |-> "none", val |-> 0]

TagAccess(op, val) ==
    /\ tgRet' = [op |-> op, val |-> val]
    /\ UNCHANGED tgEntry
    /\ UNCHANGED tagOthers

TagId == TagAccess("id", Tag_id(Tag_new(tgEntry)))

TagFlags == TagAccess("flags", Tag_flags(Tag_new(tgEntry)))

TagValue == TagAccess("value", Tag_value(Tag_new(tgEntry)))

TagNext == TagId \/ TagFlags \/ TagValue

NoTagEntry == [tag |-> 0, name_offset |-> 0, name |-> <<>>]

TagIdle ==
    /\ tgEntry = NoTagEntry
    /\ tgRet = NoTagRet

(***************************************************************************)
(* The rows a Tag is made of: every combination of the six flag bits over  *)
(* ids below and above 2^16, with and without bit 31.                      *)
(***************************************************************************)
RECURSIVE SumPow2(_)
SumPow2(ks) ==
    IF ks = {} THEN 0
    ELSE LET k == CHOOSE x \in ks : TRUE IN 2 ^ k + SumPow2(ks \ {k})

TagIds == {0, 5, 65541, 33554431, MinI32 + 5}

TagInit ==
    /\ \E id \in TagIds : \E fl \in SUBSET (25..30) :
          tgEntry = [tag |-> id + SumPow2(fl), name_offset |-> 0,
                     name |-> <<102, 111, 111>>]
    /\ tgRet = NoTagRet

(***************************************************************************)
(* The lookups of the tag, debug-files and debug-lines tables              *)
(* (src/sections/mod.rs lines 305-324, 459-478, 515-534).                  *)
(***************************************************************************)
LkSome(v) == [found |-> TRUE, v |-> v, panic |-> FALSE]

LkNone == [found |-> FALSE, v |-> <<>>, panic |-> FALSE]

\* x as u16.
AsU16(x) == x % 65536

\* a <= b on u32 values held as 32-bit words.
ULe(a, b) == IF (a < 0) = (b < 0) THEN a <= b ELSE b < 0

\* a / 2 on i32: the quotient rounded towards zero.
HalfI32(a) == IF a >= 0 THEN a \div 2 ELSE -((-a) \div 2)

\* Lines 312-317: the first tag, in table order, whose id() as u16 is tag.
FirstTag(tags, tag) ==
    LET hits == {i \in DOMAIN tags : AsU16(Tag_id(tags[i])) = tag}
    IN  IF hits = {} THEN LkNone
        ELSE LkSome(tags[CHOOSE i \in hits : \A j \in hits : i <= j])

\* Lines 305-324: what find_tag returns.
find_tag(tags, cache, tag) ==
    IF tag \in DOMAIN cache THEN LkSome(cache[tag]) ELSE FirstTag(tags, tag)

\* Lines 319-321: the cache after find_tag(tag) has returned res.
cache_after_find_tag(cache, tag, res) ==
    IF tag \notin DOMAIN cache /\ res.found
    THEN [k \in DOMAIN cache \cup {tag} |-> IF k = tag THEN res.v ELSE cache[k]]
    ELSE cache

\* The loop of find_file with < in place of <=.
RECURSIVE FindLow_Strict(_, _, _, _)
FindLow_Strict(entries, addr, low, high) ==
    IF high - low > 1
    THEN LET mid == HalfI32(low + high)
         IN  IF mid < 0 \/ mid >= Len(entries) THEN -2
             ELSE IF ULe(entries[mid + 1].address, addr)
                     /\ entries[mid + 1].address # addr
             THEN FindLow_Strict(entries, addr, mid, high)
             ELSE FindLow_Strict(entries, addr, low, mid)
    ELSE low

\* Lines 463-471 and 519-527: the loop of find_file; low at its end, or -2
\* when entries[mid] is outside the table.
RECURSIVE FindLow(_, _, _, _)
FindLow(entries, addr, low, high) ==
    IF high - low > 1
    THEN LET mid == HalfI32(low + high)
         IN  IF mid < 0 \/ mid >= Len(entries) THEN -2
             ELSE IF ULe(entries[mid + 1].address, addr)
             THEN FindLow(entries, addr, mid, high)
             ELSE FindLow(entries, addr, low, mid)
    ELSE low

\* entries[mid] outside the table: the index aborts the call.
LkPanic == [found |-> FALSE, v |-> <<>>, panic |-> TRUE]

\* Lines 459-478: SMXDebugFilesTable::find_file.
find_file_name(entries, addr) ==
    LET low == FindLow(entries, addr, -1, Len(entries))
    IN  IF low = -2 THEN LkPanic
        ELSE IF low = -1 THEN LkNone
        ELSE LkSome(entries[low + 1].name)

\* Lines 515-534: SMXDebugLinesTable::find_file.
find_file_line(entries, addr) ==
    LET low == FindLow(entries, addr, -1, Len(entries))
    IN  IF low = -2 THEN LkPanic
        ELSE IF low = -1 THEN LkNone
        ELSE LkSome(entries[low + 1].line + 1)

NoLookup == [op |-> "none", arg |-> 0, res |-> LkNone]

\* Lines 297-299: the tags of a table built from these rows.
TagsOf(entries) == [i \in DOMAIN entries |-> Tag_new(entries[i])]

LkBuilt(name) == tbSection.name = name /\ tbRes.st = "ok"

LkFindTag(tag) ==
    /\ LkBuilt(TAGS_SECTION)
    /\ LET r == find_tag(TagsOf(tbRes.entries), tagCache, tag)
       IN  /\ lkRet' = [op |-> "find_tag", arg |-> tag, res |-> r]
           /\ tagCache' = cache_after_find_tag(tagCache, tag, r)
    /\ UNCHANGED tbVars
    /\ UNCHANGED lkOthers

LkFindFileName(addr) ==
    /\ LkBuilt(DBG_FILES_SECTION)
    /\ lkRet' = [op |-> "find_file", arg |-> addr,
                 res |-> find_file_name(tbRes.entries, addr)]
    /\ UNCHANGED <<tagCache, tbVars>>
    /\ UNCHANGED lkOthers

LkFindFileLine(addr) ==
    /\ LkBuilt(DBG_LINES_SECTION)
    /\ lkRet' = [op |-> "find_file", arg |-> addr,
                 res |-> find_file_line(tbRes.entries, addr)]
    /\ UNCHANGED <<tagCache, tbVars>>
    /\ UNCHANGED lkOthers

LkIdle ==
    /\ tagCache = <<>>
    /\ lkRet = NoLookup

(***************************************************************************)
(* The inputs of the lookups: a container of ".names" and one table of n   *)
(* rows, the addresses rising, rising with repeats, or falling; the tags   *)
(* with ids below and above 2^16.                                          *)
(***************************************************************************)
MaxLookupRows == 4

LookupSectionNames == {TAGS_SECTION, DBG_FILES_SECTION, DBG_LINES_SECTION}

AddressOrders == {"rising", "repeats", "falling"}

LookupAddress(r, order) ==
    CASE order = "rising" -> 256 + r
      [] order = "repeats" -> 256 + (r \div 2)
      [] OTHER -> 300 - r

\* Tag ids 65541, 5, 7, 5, ... with the FUNC or the ENUM bit.
LookupTag(r) ==
    (IF r % 2 = 0 THEN 536870912 ELSE 134217728)
        + (CASE r % 4 = 0 -> 65541 [] r % 4 = 2 -> 7 [] OTHER -> 5)

LookupRow(name, r, order) ==
    IF name = TAGS_SECTION THEN I32LE(LookupTag(r)) \o I32LE(4 * (r % 3))
    ELSE IF name = DBG_LINES_SECTION
    THEN I32LE(LookupAddress(r, order)) \o I32LE(10 + r)
    ELSE I32LE(LookupAddress(r, order)) \o I32LE(4 * (r % 3))

LookupContainer(name, n, order) ==
    TableContainer(<<[name |-> NAMES_SECTION, data |-> FooBarBaz,
                      size |-> Len(FooBarBaz)],
                     [name |-> name,
                      data |-> Flatten([r \in 1..n |-> LookupRow(name, r - 1, order)]),
                      size |-> 8 * n]>>)

\* The tag ids and addresses looked up.
LookupTags == {0, 5, 7, 9}

LookupAddrs == {0, 255, 256, 257, 258, 299, 300, -1}

LkInit ==
    /\ \E name \in LookupSectionNames : \E n \in 0..MaxLookupRows :
       \E order \in AddressOrders :
          LET h == SMXHeader_new(LookupContainer(name, n, order)).header
          IN  /\ tbImage = h.data
              /\ tbNames = h.sections[1]
              /\ tbSection = h.sections[2]
    /\ tbRes = NoTable
    /\ tagCache = <<>>
    /\ lkRet = NoLookup

LkNext ==
    \/ TbTags
    \/ TbDebugFiles
    \/ TbDebugLines
    \/ \E tag \in LookupTags : LkFindTag(tag)
    \/ \E addr \in LookupAddrs : LkFindFileName(addr)
    \/ \E addr \in LookupAddrs : LkFindFileLine(addr)

(***************************************************************************)
(* The RTTI type decoder (rtti/mod.rs).  A byte is a number in 0..255, an  *)
(* offset is 0-based as in the source, and a decoded type is a string.     *)
(* A function that can abort returns st = "panic".                         *)
(***************************************************************************)
CB_BOOL == 1

CB_INT32 == 6

CB_FLOAT32 == 12

CB_CHAR8 == 14

CB_ANY == 16

CB_TOPFUNCTION == 17

CB_FIXEDARRAY == 48

CB_ARRAY == 49

CB_FUNCTION == 50

CB_ENUM == 66

CB_TYPEDEF == 67

CB_TYPESET == 68

CB_STRUCT == 69

CB_ENUMSTRUCT == 70

CB_VOID == 112

CB_VARIADIC == 113

CB_BYREF == 114

CB_CONST == 115

\* bytes[offset as usize] is inside the vector.
InBytes(bytes, offset) == offset >= 0 /\ offset < Len(bytes)

ByteAt(bytes, offset) == bytes[offset + 1]

U32Panic == [st |-> "panic", value |-> 0, offset |-> 0]

\* Line 92: (b & 0x7f) << shift, computed on a u8 before the cast to u32:
\* the bits shifted past bit 7 are lost.  A shift of 8 or more aborts in a
\* build with overflow checks (-1 here) and is taken modulo 8 without them.
ShlU8(x, shift, overflow_checks) ==
    IF shift >= 8 /\ overflow_checks THEN -1
    ELSE (x * (2 ^ (shift % 8))) % 256

\* Lines 89-97: the loop of decode_u32.
RECURSIVE U32Loop(_, _, _, _, _)
U32Loop(bytes, offset, value, shift, overflow_checks) ==
    IF ~InBytes(bytes, offset) THEN U32Panic
    ELSE LET b == ByteAt(bytes, offset)
             part == ShlU8(b % 128, shift, overflow_checks)
         IN  IF part < 0 THEN U32Panic
             ELSE IF b < 128
             THEN [st |-> "ok", value |-> Or32(value, part),
                   offset |-> offset + 1]
             ELSE U32Loop(bytes, offset + 1, Or32(value, part), shift + 7,
                          overflow_checks)

\* Lines 80-100: CB::decode_u32; the offset of the result is the caller's
\* cursor after the call.
decode_u32(bytes, offset, overflow_checks) ==
    U32Loop(bytes, offset, 0, 0, overflow_checks)

\* Lines 184-191.
TypeBuilder_new(smx_file, bytes, offset) ==
    [file |-> smx_file, bytes |-> bytes, offset |-> offset, is_const |-> FALSE]

TypePanic(self) == [st |-> "panic", text |-> "", self |-> self]

TypeOk(text, self) == [st |-> "ok", text |-> text, self |-> self]

\* Lines 307-315: TypeBuilder::match.
match(self, b) ==
    IF ~InBytes(self.bytes, self.offset)
    THEN [st |-> "panic", hit |-> FALSE, self |-> self]
    ELSE IF ByteAt(self.bytes, self.offset) # b
    THEN [st |-> "ok", hit |-> FALSE, self |-> self]
    ELSE [st |-> "ok", hit |-> TRUE,
          self |-> [self EXCEPT !.offset = self.offset + 1]]

\* Lines 234-257: decode_u32, then file.borrow_mut() (refused while the
\* file is borrowed), the table unwrapped and indexed by the value.
TableName(self, table, overflow_checks) ==
    Let(decode_u32(self.bytes, self.offset, overflow_checks),
        LAMBDA u :
          LET rows == self.file[table]
          IN  IF u.st = "panic" \/ self.file.borrowed \/ ~rows.some
              THEN TypePanic(self)
              ELSE IF ~(u.value >= 0 /\ u.value < Len(rows.v))
              THEN TypePanic(self)
              ELSE TypeOk(rows.v[u.value + 1],
                          [self EXCEPT !.offset = u.offset]))

\* argv.join(", ")
RECURSIVE Join(_)
Join(argv) ==
    IF argv = <<>> THEN ""
    ELSE IF Len(argv) = 1 THEN argv[1]
    ELSE argv[1] \o ", " \o Join(Tail(argv))

RECURSIVE decode(_, _), decode_new(_, _), decode_function(_, _)
RECURSIVE DecodeArgs(_, _, _, _)

\* decode_new without the restore of line 205.
decode_new_KeepConst(self, overflow_checks) ==
    Let(decode([self EXCEPT !.is_const = FALSE], overflow_checks),
        LAMBDA r :
          IF r.st = "panic" THEN r
          ELSE TypeOk(IF r.self.is_const THEN "const " \o r.text
                      ELSE r.text,
                      r.self))

\* Lines 195-208: TypeBuilder::decode_new.
decode_new(self, overflow_checks) ==
    Let(decode([self EXCEPT !.is_const = FALSE], overflow_checks),
        LAMBDA r :
          IF r.st = "panic" THEN r
          ELSE TypeOk(IF r.self.is_const THEN "const " \o r.text
                      ELSE r.text,
                      [r.self EXCEPT !.is_const = self.is_const]))

\* Lines 222-227: the FIXEDARRAY arm, s2 the builder after the tag byte.
FixedArray(self, s2, overflow_checks) ==
    Let(decode_u32(s2.bytes, s2.offset, overflow_checks),
        LAMBDA index :
          IF index.st = "panic" THEN TypePanic(self)
          ELSE Let(decode([s2 EXCEPT !.offset = index.offset],
                          overflow_checks),
                   LAMBDA inner :
                     IF inner.st = "panic" THEN inner
                     ELSE TypeOk(inner.text \o "[" \o
                                 ToString(index.value) \o "]", inner.self)))

\* Lines 210-261: TypeBuilder::decode.
decode(self, overflow_checks) ==
    LET m == match(self, CB_CONST)
        s1 == [m.self EXCEPT !.is_const = self.is_const \/ m.hit]
    IN  IF m.st = "panic" \/ ~InBytes(s1.bytes, s1.offset)
        THEN TypePanic(self)
        ELSE
        LET b == ByteAt(s1.bytes, s1.offset)
            s2 == [s1 EXCEPT !.offset = s1.offset + 1]
        IN  CASE b = CB_BOOL -> TypeOk("bool", s2)
              [] b = CB_INT32 -> TypeOk("int", s2)
              [] b = CB_FLOAT32 -> TypeOk("float", s2)
              [] b = CB_CHAR8 -> TypeOk("char", s2)
              [] b = CB_ANY -> TypeOk("any", s2)
              [] b = CB_TOPFUNCTION -> TypeOk("Function", s2)
              [] b = CB_FIXEDARRAY -> FixedArray(self, s2, overflow_checks)
              [] b = CB_ARRAY ->
                   Let(decode(s2, overflow_checks),
                       LAMBDA inner :
                         IF inner.st = "panic" THEN inner
                         ELSE TypeOk(inner.text \o "[]", inner.self))
              [] b = CB_ENUM -> TableName(s2, "rtti_enums", overflow_checks)
              [] b = CB_TYPEDEF ->
                   TableName(s2, "rtti_typedefs", overflow_checks)
              [] b = CB_TYPESET ->
                   TableName(s2, "rtti_typesets", overflow_checks)
              [] b = CB_STRUCT ->
                   TableName(s2, "rtti_classdefs", overflow_checks)
              [] b = CB_FUNCTION -> decode_function(s2, overflow_checks)
              [] b = CB_ENUMSTRUCT ->
                   TableName(s2, "rtti_enum_structs", overflow_checks)
              [] OTHER -> TypeOk("unknown type code: " \o ToString(b), s2)

\* Lines 285-294: the argument loop, n arguments still to decode.
DecodeArgs(self, n, argv, overflow_checks) ==
    IF n = 0 THEN [st |-> "ok", argv |-> argv, self |-> self]
    ELSE LET is_byref == match(self, CB_BYREF)
         IN  IF is_byref.st = "panic"
             THEN [st |-> "panic", argv |-> argv, self |-> self]
             ELSE Let(decode_new(is_byref.self, overflow_checks),
                      LAMBDA r :
                        IF r.st = "panic"
                        THEN [st |-> "panic", argv |-> argv, self |-> self]
                        ELSE Let(Append(argv, IF is_byref.hit
                                              THEN r.text \o "&"
                                              ELSE r.text),
                                 LAMBDA pushed :
                                   DecodeArgs(r.self, n - 1, pushed,
                                              overflow_checks)))

\* The signature with the ellipsis after the closing parenthesis.
Signature_EllipsisOutside(return_type, argv, variadic) ==
    "function " \o return_type \o " (" \o Join(argv) \o ")" \o
        (IF variadic THEN "..." ELSE "")

\* Lines 296-304: the signature of a function type.
Signature(return_type, argv, variadic) ==
    "function " \o return_type \o " (" \o Join(argv) \o
        (IF variadic THEN "..." ELSE "") \o ")"

\* Lines 263-305: TypeBuilder::decode_function.
decode_function(self, overflow_checks) ==
    IF ~InBytes(self.bytes, self.offset)
          \/ ~InBytes(self.bytes, self.offset + 1)
    THEN TypePanic(self)
    ELSE
    LET argc == ByteAt(self.bytes, self.offset)
        variadic == ByteAt(self.bytes, self.offset + 1) = CB_VARIADIC
        s1 == [self EXCEPT
                 !.offset = IF variadic THEN self.offset + 2
                            ELSE self.offset + 1]
    IN  IF ~InBytes(s1.bytes, s1.offset) THEN TypePanic(self)
        ELSE
        Let(IF ByteAt(s1.bytes, s1.offset) = CB_VOID
            THEN TypeOk("void", [s1 EXCEPT !.offset = s1.offset + 1])
            ELSE decode_new(s1, overflow_checks),
            LAMBDA ret :
              IF ret.st = "panic" THEN TypePanic(self)
              ELSE Let(DecodeArgs(ret.self, argc, <<>>, overflow_checks),
                       LAMBDA args :
                         IF args.st = "panic" THEN TypePanic(self)
                         ELSE TypeOk(Signature(ret.text, args.argv,
                                               variadic),
                                     args.self)))

\* Lines 145-149: SMXRTTIData::function_type_from_offset.
function_type_from_offset(data, offset, overflow_checks) ==
    decode_function(TypeBuilder_new(data.smx_file, data.bytes, offset),
                    overflow_checks)

\* Lines 158-160: count calls of decode_new on the one builder.
RECURSIVE TypesLoop(_, _, _, _)
TypesLoop(builder, count, types, overflow_checks) ==
    IF count <= 0 THEN [st |-> "ok", types |-> types]
    ELSE Let(decode_new(builder, overflow_checks),
             LAMBDA r :
               IF r.st = "panic" THEN [st |-> "panic", types |-> <<>>]
               ELSE Let(Append(types, r.text),
                        LAMBDA pushed :
                          TypesLoop(r.self, count - 1, pushed,
                                    overflow_checks)))

\* Lines 151-163: SMXRTTIData::typeset_types_from_offset.  The count is
\* decoded on a clone of offset (line 152) and the builder is made at
\* offset (line 156).
typeset_types_from_offset(data, offset, overflow_checks) ==
    Let(decode_u32(data.bytes, offset, overflow_checks),
        LAMBDA count :
          IF count.st = "panic" THEN [st |-> "panic", types |-> <<>>]
          ELSE TypesLoop(TypeBuilder_new(data.smx_file, data.bytes, offset),
                         count.value, <<>>, overflow_checks))

NoRtti == [op |-> "none", offset |-> 0, is_const |-> FALSE, res |-> <<>>]

\* The SMXRTTIData of lines 104-108 over the section bytes.
RttiData == [smx_file |-> rtFile, bytes |-> rtBytes]

\* CB::decode_u32(bytes, &mut offset)
RtDecodeU32(offset) ==
    /\ rtRet' = [op |-> "decode_u32", offset |-> offset, is_const |-> FALSE,
                 res |-> decode_u32(rtBytes, offset, rtChecks)]
    /\ UNCHANGED <<rtBytes, rtFile, rtChecks, rtOthers>>

\* decode_new on a builder at offset whose flag is is_const.
RtDecodeNew(offset, is_const) ==
    /\ rtRet' = [op |-> "decode_new", offset |-> offset,
                 is_const |-> is_const,
                 res |-> decode_new(
                     [TypeBuilder_new(rtFile, rtBytes, offset)
                         EXCEPT !.is_const = is_const], rtChecks)]
    /\ UNCHANGED <<rtBytes, rtFile, rtChecks, rtOthers>>

RtFunctionType(offset) ==
    /\ rtRet' = [op |-> "function_type_from_offset", offset |-> offset,
                 is_const |-> FALSE,
                 res |-> function_type_from_offset(RttiData, offset,
                                                   rtChecks)]
    /\ UNCHANGED <<rtBytes, rtFile, rtChecks, rtOthers>>

RtTypesetTypes(offset) ==
    /\ rtRet' = [op |-> "typeset_types_from_offset", offset |-> offset,
                 is_const |-> FALSE,
                 res |-> typeset_types_from_offset(RttiData, offset,
                                                   rtChecks)]
    /\ UNCHANGED <<rtBytes, rtFile, rtChecks, rtOthers>>

NoRttiFile ==
    [borrowed |-> FALSE, rtti_enums |-> None, rtti_typedefs |-> None,
     rtti_typesets |-> None, rtti_classdefs |-> None,
     rtti_enum_structs |-> None]

RtIdle ==
    /\ rtBytes = <<>>
    /\ rtFile = NoRttiFile
    /\ rtChecks = FALSE
    /\ rtRet = NoRtti

(***************************************************************************)
(* Inputs of the type decoder.                                             *)
(***************************************************************************)
MaxTypeBytes == 2

MaxEnumRows == 258

TypeAlphabet ==
    {2, CB_INT32, CB_ARRAY, CB_FUNCTION, CB_VOID, CB_CONST, 128}

TypeExamples ==
    { <<CB_CONST, CB_INT32>>,
      <<CB_FUNCTION, 1, CB_VOID, CB_INT32>>,
      <<CB_FUNCTION, 2, CB_VARIADIC, CB_FLOAT32, CB_BYREF, CB_INT32,
        CB_BOOL>>,
      <<CB_FUNCTION, 2, CB_CONST, CB_INT32, CB_BOOL, CB_CONST, CB_FLOAT32>>,
      <<CB_CONST, CB_FUNCTION, 2, CB_VOID, CB_BYREF, CB_CONST, CB_INT32,
        CB_ANY>>,
      <<CB_FUNCTION, 1, CB_VOID, CB_FUNCTION, 0, CB_CONST, CB_CHAR8>>,
      <<CB_FIXEDARRAY, 3, CB_CHAR8>>,
      <<CB_FIXEDARRAY, 128, 2, CB_CHAR8>>,
      <<CB_FIXEDARRAY, 129, 1, CB_TOPFUNCTION>>,
      <<CB_ARRAY, CB_BOOL>>,
      <<CB_ARRAY, CB_CONST, CB_INT32>>,
      <<CB_ARRAY, CB_FIXEDARRAY, 7, CB_ANY>>,
      <<CB_ENUM, 2>>, <<CB_ENUM, 255, 1>>, <<CB_ENUM, 128, 2>>,
      <<CB_ENUM, 129, 128, 0>>,
      <<CB_TYPEDEF, 1>>, <<CB_TYPESET, 0>>, <<CB_STRUCT, 1>>,
      <<CB_ENUMSTRUCT, 1, CB_INT32>>, <<CB_STRUCT, 2>>,
      <<255, 255, 3>>, <<128, 128, 1>>,
      <<1, CB_INT32>>, <<2, CB_INT32, CB_BOOL, CB_ANY>>,
      <<0, CB_INT32>>, <<255>> }

TypeInputs ==
    TypeExamples
        \cup UNION {[1..k -> TypeAlphabet] : k \in 0..MaxTypeBytes}

\* Row i (0-based) of a table is named by the table and the row.
RowNames(prefix, n) == [i \in 1..n |-> prefix \o ToString(i - 1)]

RttiFile(borrowed) ==
    [borrowed |-> borrowed,
     rtti_enums |-> Some(RowNames("Enum", MaxEnumRows)),
     rtti_typedefs |-> Some(RowNames("Typedef", 2)),
     rtti_typesets |-> Some(RowNames("Typeset", 1)),
     rtti_classdefs |-> Some(RowNames("Class", 2)),
     rtti_enum_structs |-> Some(RowNames("EnumStruct", 2))]

RtInit ==
    /\ rtBytes \in TypeInputs
    /\ \E borrowed \in BOOLEAN : rtFile = RttiFile(borrowed)
    /\ rtChecks \in BOOLEAN
    /\ rtRet = NoRtti

RtNext ==
    \/ \E offset \in 0..Len(rtBytes) : RtDecodeU32(offset)
    \/ \E offset \in 0..Len(rtBytes) : \E is_const \in BOOLEAN :
          RtDecodeNew(offset, is_const)
    \/ \E offset \in 0..Len(rtBytes) : RtFunctionType(offset)
    \/ \E offset \in 0..Len(rtBytes) : RtTypesetTypes(offset)

(***************************************************************************)
(* The disassembler on a loaded container (src/v1disassembler/mod.rs lines *)
(* 185-290, src/sections/mod.rs lines 385-407).                            *)
(*                                                                         *)
(* The container is the one SMXFile::new has after its two passes over the *)
(* section directory: ".names", ".publics" of 0 or 2 rows and ".code", the *)
(* code section first or last in the image.  diassemble is called on it at *)
(* cell-aligned offsets, each call keeping what it added to the            *)
(* discovered-functions table.                                             *)
(***************************************************************************)
\* Lines 395-399 of src/sections/mod.rs: the bytes of the blob, taken at the
\* section's own offset plus the header's code_offset.
get_data_vec(image, code) ==
    LET start == code.section.data_offset + code.code_header.code_offset
        stop  == start + code.code_header.code_size
    IN  IF start < 0 \/ stop < start \/ stop > Len(image)
        THEN [st |-> "panic", data |-> <<>>]
        ELSE [st |-> "ok", data |-> Slice(image, start, stop)]

\* The two passes of SMXFile::new over sections i.. of the directory, every
\* assignment granted.
RECURSIVE LoadPass(_, _, _)
LoadPass(f, i, pass) ==
    IF i > Len(f.header.sections) THEN f
    ELSE Let(IF pass = 1 THEN Pass1Arm(f, f.header.sections[i], TRUE)
             ELSE Pass2Arm(f, f.header.sections[i], TRUE),
             LAMBDA r : LoadPass(r.file, i + 1, pass))

Loaded(image) ==
    Let(LoadPass(NewFile(SMXHeader_new(image).header), 1, 1),
        LAMBDA f : LoadPass(f, 1, 2))

DasmKinds ==
    {"retn", "call", "bad", "recall", "add", "arity", "wide", "case", "casebad"}

\* The largest blob, in cells; every cell of it is a procedure offset tried.
MaxDasmCells == 21

NoDasmRet ==
    [op |-> "none", arg |-> 0, before |-> <<>>, st |-> "none", err |-> "",
     insns |-> <<>>, val |-> 0, data |-> <<>>]

DsDiassemble ==
    /\ dsCode.some
    /\ \E cell \in 0..MaxDasmCells :
          LET r == diassemble(dsFile, dsCode.v, 4 * cell)
          IN  /\ dsRet' = [NoDasmRet EXCEPT !.op = "diassemble",
                                            !.arg = 4 * cell,
                                            !.before = dsFile.called_functions.v,
                                            !.st = r.st, !.err = r.err,
                                            !.insns = r.insns]
              /\ dsFile' = [dsFile EXCEPT !.called_functions = Some(r.functions)]
    /\ UNCHANGED <<dsCode, dsOthers>>

\* One cell as the disassembler reads it.
DsReadAt ==
    /\ dsCode.some
    /\ \E cell \in 0..MaxDasmCells :
          LET r == read_at(V1Disassembler_new(dsFile, dsCode.v), 4 * cell)
          IN  dsRet' = [NoDasmRet EXCEPT !.op = "read_at", !.arg = 4 * cell,
                                         !.before = dsFile.called_functions.v,
                                         !.st = r.st, !.val = r.val]
    /\ UNCHANGED <<dsFile, dsCode, dsOthers>>

\* The blob as the code section hands it out.
DsGetDataVec ==
    /\ dsCode.some
    /\ LET r == get_data_vec(dsFile.header.data, dsCode.v)
       IN  dsRet' = [NoDasmRet EXCEPT !.op = "get_data_vec",
                                      !.before = dsFile.called_functions.v,
                                      !.st = r.st, !.data = r.data]
    /\ UNCHANGED <<dsFile, dsCode, dsOthers>>

DsIdle == dsFile = NoFile /\ dsCode = None /\ dsRet = NoDasmRet

DsInit ==
    /\ \E n \in {0, 2} : \E kind \in DasmKinds : \E codeFirst \in BOOLEAN :
          dsFile = Loaded(FileContainer(TRUE, n, kind, FALSE, codeFirst))
    /\ dsCode = dsFile.codev1
    /\ dsRet = NoDasmRet

DsNext ==
    \/ DsDiassemble
    \/ DsReadAt
    \/ DsGetDataVec

(***************************************************************************)
(* The RTTI list tables (src/rtti/mod.rs lines 31-37 and 319-736).         *)
(*                                                                         *)
(* Every constructor takes the section's bytes into a cursor, has          *)
(* SMXRTTIListTable::init read header_size, row_size and row_count, and    *)
(* then reads row_count rows from where the cursor stands, field after     *)
(* field.  Four of them are modelled: enums (a name and three reserved     *)
(* words), methods (four words), natives (two words; typedefs and typesets *)
(* have the same row) and fields (a 16-bit word and two words).            *)
(***************************************************************************)
RTTI_ENUMS_SECTION == <<114, 116, 116, 105, 46, 101, 110, 117, 109, 115>>    \* "rtti.enums"

RTTI_METHODS_SECTION == <<114, 116, 116, 105, 46, 109, 101, 116, 104, 111, 100, 115>>    \* "rtti.methods"

RTTI_NATIVES_SECTION == <<114, 116, 116, 105, 46, 110, 97, 116, 105, 118, 101, 115>>    \* "rtti.natives"

RTTI_FIELDS_SECTION == <<114, 116, 116, 105, 46, 102, 105, 101, 108, 100, 115>>    \* "rtti.fields"

\* read_i16::<LittleEndian>
ReadI16LE(d, pos) ==
    IF ReadU16LE(d, pos) >= 32768 THEN ReadU16LE(d, pos) - 65536
    ELSE ReadU16LE(d, pos)

\* Lines 31-37: the three words of the list header; the cursor is left
\* behind them.
SMXRTTIListTable_init(data) ==
    IF ~CanRead(data, 0, 4) \/ ~CanRead(data, 4, 4) \/ ~CanRead(data, 8, 4)
    THEN [st |-> "err", header_size |-> 0, row_size |-> 0, row_count |-> 0,
          cursor |-> 0]
    ELSE [st |-> "ok", header_size |-> ReadU32LE(data, 0),
          row_size |-> ReadU32LE(data, 4), row_count |-> ReadU32LE(data, 8),
          cursor |-> 12]

\* Lines 334-341: the rows of the enums table.
RECURSIVE EnumRows(_, _, _, _, _, _)
EnumRows(data, pos, count, image, nsec, entries) ==
    IF count = 0 THEN TbOk(entries)
    ELSE IF ~CanRead(data, pos, 4) THEN TbErr("err", "Io")
    ELSE Let(string_at(image, nsec, <<>>, ReadI32LE(data, pos)), LAMBDA n :
             IF n.st # "ok" THEN TbErr(n.st, n.err)
             ELSE Let(Append(entries, n.str), LAMBDA es :
                      EnumRows(data, pos + 4 + 3 * 4, count - 1, image, nsec, es)))

\* Lines 380-389: the rows of the methods table.
RECURSIVE MethodRows(_, _, _, _, _, _)
MethodRows(data, pos, count, image, nsec, entries) ==
    IF count = 0 THEN TbOk(entries)
    ELSE IF ~CanRead(data, pos, 4) THEN TbErr("err", "Io")
    ELSE Let(string_at(image, nsec, <<>>, ReadI32LE(data, pos)), LAMBDA n :
             IF n.st # "ok" THEN TbErr(n.st, n.err)
             ELSE IF ~CanRead(data, pos + 4, 4) \/ ~CanRead(data, pos + 8, 4)
                     \/ ~CanRead(data, pos + 12, 4)
             THEN TbErr("err", "Io")
             ELSE Let(Append(entries,
                             [name |-> n.str,
                              pcode_start |-> ReadI32LE(data, pos + 4),
                              pcode_end |-> ReadI32LE(data, pos + 8),
                              signature |-> ReadI32LE(data, pos + 12)]),
                      LAMBDA es :
                          MethodRows(data, pos + 16, count - 1, image, nsec, es)))

\* Lines 428-435: the rows of the natives table.
RECURSIVE RttiNativeRows(_, _, _, _, _, _)
RttiNativeRows(data, pos, count, image, nsec, entries) ==
    IF count = 0 THEN TbOk(entries)
    ELSE IF ~CanRead(data, pos, 4) THEN TbErr("err", "Io")
    ELSE Let(string_at(image, nsec, <<>>, ReadI32LE(data, pos)), LAMBDA n :
             IF n.st # "ok" THEN TbErr(n.st, n.err)
             ELSE IF ~CanRead(data, pos + 4, 4) THEN TbErr("err", "Io")
             ELSE Let(Append(entries,
                             [name |-> n.str,
                              signature |-> ReadI32LE(data, pos + 4)]),
                      LAMBDA es :
                          RttiNativeRows(data, pos + 8, count - 1, image, nsec, es)))

\* Lines 714-726: the rows of the fields table.
RECURSIVE FieldRows(_, _, _, _, _, _)
FieldRows(data, pos, count, image, nsec, entries) ==
    IF count = 0 THEN TbOk(entries)
    ELSE IF ~CanRead(data, pos, 2) \/ ~CanRead(data, pos + 2, 4)
            \/ ~CanRead(data, pos + 6, 4)
    THEN TbErr("err", "Io")
    ELSE Let(string_at(image, nsec, <<>>, ReadI32LE(data, pos + 2)), LAMBDA n :
             IF n.st # "ok" THEN TbErr(n.st, n.err)
             ELSE Let(Append(entries,
                             [flags |-> ReadI16LE(data, pos),
                              name_offset |-> ReadI32LE(data, pos + 2),
                              type_id |-> ReadI32LE(data, pos + 6),
                              name |-> n.str]),
                      LAMBDA es :
                          FieldRows(data, pos + 10, count - 1, image, nsec, es)))

\* Lines 324-346.
SMXRTTIEnumTable_new(image, section, nsec) ==
    Let(get_data(image, section), LAMBDA d :
        IF d.st # "ok" THEN TbErr(d.st, "")
        ELSE Let(SMXRTTIListTable_init(d.data), LAMBDA rtti :
                 IF rtti.st # "ok" THEN TbErr("err", "Io")
                 ELSE EnumRows(d.data, rtti.cursor, rtti.row_count, image, nsec,
                               <<>>)))

\* Lines 370-394.
SMXRTTIMethodTable_new(image, section, nsec) ==
    Let(get_data(image, section), LAMBDA d :
        IF d.st # "ok" THEN TbErr(d.st, "")
        ELSE Let(SMXRTTIListTable_init(d.data), LAMBDA rtti :
                 IF rtti.st # "ok" THEN TbErr("err", "Io")
                 ELSE MethodRows(d.data, rtti.cursor, rtti.row_count, image, nsec,
                                 <<>>)))

\* Lines 418-439.
SMXRTTINativeTable_new(image, section, nsec) ==
    Let(get_data(image, section), LAMBDA d :
        IF d.st # "ok" THEN TbErr(d.st, "")
        ELSE Let(SMXRTTIListTable_init(d.data), LAMBDA rtti :
                 IF rtti.st # "ok" THEN TbErr("err", "Io")
                 ELSE RttiNativeRows(d.data, rtti.cursor, rtti.row_count, image,
                                     nsec, <<>>)))

\* Lines 704-731.
SMXRTTIFieldTable_new(image, section, nsec) ==
    Let(get_data(image, section), LAMBDA d :
        IF d.st # "ok" THEN TbErr(d.st, "")
        ELSE Let(SMXRTTIListTable_init(d.data), LAMBDA rtti :
                 IF rtti.st # "ok" THEN TbErr("err", "Io")
                 ELSE FieldRows(d.data, rtti.cursor, rtti.row_count, image, nsec,
                                <<>>)))

RlBuild(name, res) ==
    /\ rlRes.st = "none"
    /\ rlSection.name = name
    /\ rlRes' = res
    /\ UNCHANGED <<rlImage, rlNames, rlSection>>
    /\ UNCHANGED rlOthers

RlEnums ==
    RlBuild(RTTI_ENUMS_SECTION, SMXRTTIEnumTable_new(rlImage, rlSection, rlNames))

RlMethods ==
    RlBuild(RTTI_METHODS_SECTION,
            SMXRTTIMethodTable_new(rlImage, rlSection, rlNames))

RlNatives ==
    RlBuild(RTTI_NATIVES_SECTION,
            SMXRTTINativeTable_new(rlImage, rlSection, rlNames))

RlFields ==
    RlBuild(RTTI_FIELDS_SECTION, SMXRTTIFieldTable_new(rlImage, rlSection, rlNames))

RlIdle ==
    /\ rlImage = <<>>
    /\ rlNames = NoSection
    /\ rlSection = NoSection
    /\ rlRes = NoTable

(***************************************************************************)
(* RTTI tables as a writer lays them out: the list header, header_size -   *)
(* 12 further header bytes, then row_count rows of row_size bytes, each    *)
(* the fields of the row followed by row_size minus the fields' bytes.     *)
(* The bytes that are no field spell the name index 8 ("baz").  The table  *)
(* is whole or lacks its last bytes.                                       *)
(***************************************************************************)
MaxRttiRows == 2

MaxRttiCut == 1

RttiSectionNames ==
    {RTTI_ENUMS_SECTION, RTTI_METHODS_SECTION, RTTI_NATIVES_SECTION,
     RTTI_FIELDS_SECTION}

\* The bytes of a row as the constructor of the table reads them.
RowLayoutSize(name) ==
    CASE name = RTTI_ENUMS_SECTION -> 16
      [] name = RTTI_METHODS_SECTION -> 16
      [] name = RTTI_NATIVES_SECTION -> 8
      [] OTHER -> 10

Filler(n) == [i \in 1..n |-> IF i % 4 = 1 THEN 8 ELSE 0]

\* Row r (0-based): named "foo" or "bar", its other fields told apart by r.
RttiRowBytes(name, r) ==
    CASE name = RTTI_ENUMS_SECTION ->
             I32LE(4 * (r % 2)) \o I32LE(0) \o I32LE(0) \o I32LE(0)
      [] name = RTTI_METHODS_SECTION ->
             I32LE(4 * (r % 2)) \o I32LE(16 * r) \o I32LE(16 * r + 12)
                 \o I32LE(100 + r)
      [] name = RTTI_NATIVES_SECTION -> I32LE(4 * (r % 2)) \o I32LE(100 + r)
      [] OTHER -> U16LE(r + 1) \o I32LE(4 * (r % 2)) \o I32LE(100 + r)

RttiTableBytes(name, header_size, row_size, row_count) ==
    I32LE(header_size) \o I32LE(row_size) \o I32LE(row_count)
        \o Filler(header_size - 12)
        \o Flatten([r \in 1..row_count |->
               RttiRowBytes(name, r - 1) \o Filler(row_size - RowLayoutSize(name))])

RttiContainer(name, header_size, row_size, row_count, cut) ==
    LET bytes == RttiTableBytes(name, header_size, row_size, row_count)
    IN  TableContainer(<<[name |-> NAMES_SECTION, data |-> FooBarBaz,
                          size |-> Len(FooBarBaz)],
                         [name |-> name,
                          data |-> SubSeq(bytes, 1, Len(bytes) - cut),
                          size |-> Len(bytes) - cut]>>)

RlInit ==
    /\ \E name \in RttiSectionNames : \E extra \in {0, 4} : \E pad \in {0, 4} :
       \E row_count \in 0..MaxRttiRows : \E cut \in 0..MaxRttiCut :
          LET h == SMXHeader_new(RttiContainer(name, 12 + extra,
                                               RowLayoutSize(name) + pad,
                                               row_count, cut)).header
          IN  /\ rlImage = h.data
              /\ rlNames = h.sections[1]
              /\ rlSection = h.sections[2]
    /\ rlRes = NoTable

RlNext ==
    \/ RlEnums
    \/ RlMethods
    \/ RlNatives
    \/ RlFields

(***************************************************************************)
(* The specifications: one per part of the program, the other parts idle.  *)
(***************************************************************************)
vars == <<hdrVars, ntVars, tbVars, fileVars, tagVars, lkVars, rtVars, dsVars, rlVars>>

InitHeader == HdrInit /\ NtIdle /\ TbIdle /\ FileIdle /\ TagIdle /\ LkIdle /\ RtIdle /\ DsIdle /\ RlIdle

SpecHeader == InitHeader /\ [][HdrNext]_vars

InitNames == NtInit /\ HdrIdle /\ TbIdle /\ FileIdle /\ TagIdle /\ LkIdle /\ RtIdle /\ DsIdle /\ RlIdle

SpecNames == InitNames /\ [][NtNext]_vars

InitTables == TbInit /\ HdrIdle /\ NtIdle /\ FileIdle /\ TagIdle /\ LkIdle /\ RtIdle /\ DsIdle /\ RlIdle

SpecTables == InitTables /\ [][TbNext]_vars

InitFile == FileInit /\ HdrIdle /\ NtIdle /\ TbIdle /\ TagIdle /\ LkIdle /\ RtIdle /\ DsIdle /\ RlIdle

SpecFile == InitFile /\ [][FileNext]_vars

InitTag == TagInit /\ HdrIdle /\ NtIdle /\ TbIdle /\ FileIdle /\ LkIdle /\ RtIdle /\ DsIdle /\ RlIdle

SpecTag == InitTag /\ [][TagNext]_vars

InitLookup == LkInit /\ HdrIdle /\ NtIdle /\ FileIdle /\ TagIdle /\ RtIdle /\ DsIdle /\ RlIdle

SpecLookup == InitLookup /\ [][LkNext]_vars

InitRtti == RtInit /\ HdrIdle /\ NtIdle /\ TbIdle /\ FileIdle /\ TagIdle /\ LkIdle /\ DsIdle /\ RlIdle

SpecRtti == InitRtti /\ [][RtNext]_vars

InitDasm == DsInit /\ HdrIdle /\ NtIdle /\ TbIdle /\ FileIdle /\ TagIdle /\ LkIdle /\ RtIdle /\ RlIdle

SpecDasm == InitDasm /\ [][DsNext]_vars

\* SMXFile::new runs to its end: it is one call on one thread, so a step
\* that can be taken is taken.
SpecFileLive == InitFile /\ [][FileNext]_vars /\ WF_vars(FileNext)

InitRttiTables == RlInit /\ HdrIdle /\ NtIdle /\ TbIdle /\ FileIdle /\ TagIdle /\ LkIdle /\ RtIdle /\ DsIdle

SpecRttiTables == InitRttiTables /\ [][RlNext]_vars

\* The stepwise loader returns what the loader returns as one function.
HdrStepsAgree == hpc = "done" => hres = SMXHeader_new(input)

(***************************************************************************)
(* Properties of the header loader.                                        *)
(***************************************************************************)
\* The bytes 46 46 50 53: 0x53504646 in little-endian order.
HasMagic(d) == Len(d) >= 4 /\ SubSeq(d, 1, 4) = <<70, 70, 80, 83>>

HdrDone == hpc = "done"

HdrLoaded == hpc = "done" /\ hres.st = "ok"

\* C1: on a buffer of at least 4 bytes whose first 4 bytes are not the
\* little-endian magic 0x53504646, SMXHeader::new returns InvalidMagic,
\* whatever the remaining bytes are.
C1_InvalidMagic ==
    (HdrDone /\ Len(input) >= 4 /\ ~HasMagic(input))
        => (hres.st = "err" /\ hres.err = "InvalidMagic")

\* A complete header with a wrong magic whose disk_size and data_offset fields
\* are below 24 as well: the magic error is the one returned.
C1_Witness ==
    /\ HdrDone /\ Len(input) > HEADER_SIZE /\ ~HasMagic(input)
    /\ ReadI32LE(input, 7) < HEADER_SIZE /\ ReadI32LE(input, 20) < HEADER_SIZE
    /\ hres.err = "InvalidMagic"

\* The error of the first field below 24, in file order.
FirstInvalidField(d) ==
    IF ReadI32LE(d, 7) < 24 THEN "InvalidSize"
    ELSE IF ReadI32LE(d, 11) < 24 THEN "InvalidSize"
    ELSE IF ReadI32LE(d, 16) < 24 THEN "InvalidOffset"
    ELSE IF ReadI32LE(d, 20) < 24 THEN "InvalidOffset"
    ELSE ""

LoadedNone == HdrLoaded /\ hres.header.compression_type = "CompressionNone"

LoadedGZ == HdrLoaded /\ hres.header.compression_type = "CompressionGZ"

\* C3 as stated: the image of a loaded uncompressed container has image_size
\* bytes and is byte-identical to the input buffer.
C3_Original ==
    LoadedNone => /\ Len(hres.header.data) = hres.header.image_size
                  /\ hres.header.data = input

\* C3 as amended: the image of a loaded uncompressed container has exactly
\* image_size bytes and is byte-identical to the first image_size bytes of
\* the input buffer (to the whole input when the input is image_size long).
C3_ImagePrefix ==
    LoadedNone => /\ Len(hres.header.data) = hres.header.image_size
                  /\ hres.header.image_size = ReadI32LE(input, 11)
                  /\ hres.header.image_size <= Len(input)
                  /\ \A i \in 1..hres.header.image_size :
                         hres.header.data[i] = input[i]

\* An uncompressed container followed by one more byte loads, and the image
\* stops at image_size.
C3_Witness ==
    /\ LoadedNone
    /\ Len(input) = hres.header.image_size + 1
    /\ Len(hres.header.sections) = 1
    /\ Len(hres.header.data) = hres.header.image_size

\* The tail of the input from data_offset on, inflated.
InflatedTail == Inflate(Slice(input, ReadI32LE(input, 20), Len(input)))

C5_DebugPacked ==
    HdrLoaded =>
        (hres.header.debug_packed <=>
            (/\ input[5] = 1 /\ input[6] = 1
             /\ \A i \in 1..Len(hres.header.sections) :
                    hres.header.sections[i].name # DBG_NATIVES))

\* Version 0x0101 with ".dbg.natives" as the first of two entries: not packed.
C5_Witness ==
    /\ HdrLoaded
    /\ hres.header.version = SP1_VERSION_1_0
    /\ Len(hres.header.sections) = 2
    /\ hres.header.sections[1].name = DBG_NATIVES
    /\ hres.header.sections[2].name # DBG_NATIVES
    /\ ~hres.header.debug_packed

(***************************************************************************)
(* Properties of the name table.                                           *)
(***************************************************************************)
\* The section lies inside the image.
SectionInImage ==
    ntSection.data_offset + ntSection.size <= Len(ntImage)

\* The section offset of the first NUL at or after section offset i, or the
\* section size when there is none.
NextNul(i) ==
    LET nuls == {j \in i..(ntSection.size - 1) :
                    ntImage[ntSection.data_offset + j + 1] = 0}
    IN  IF nuls = {} THEN ntSection.size
        ELSE CHOOSE j \in nuls : \A k \in nuls : j <= k

\* The bytes of the section from offset i up to the next NUL.
PoolString(i) ==
    FromUtf8Lossy(Slice(ntImage, ntSection.data_offset + i,
                        ntSection.data_offset + NextNul(i)))

StringAtReturned == ntRet.op = "string_at"

\* C8: string_at(index) fails with InvalidIndex for every index >= size and
\* every index < 0, and for an index in [0, size) returns the bytes of the
\* section from data_offset + index up to the next NUL.
C8_StringAtBounds ==
    (StringAtReturned /\ SectionInImage) =>
        IF ntRet.index >= ntSection.size \/ ntRet.index < 0
        THEN ntRet.st = "err" /\ ntRet.err = "InvalidIndex"
        ELSE ntRet.st = "ok" /\ ntRet.str = PoolString(ntRet.index)

\* The part of C8 the code keeps: the indices from 0 on.
StringAtFromZero ==
    (StringAtReturned /\ SectionInImage /\ ntRet.index >= 0) =>
        IF ntRet.index >= ntSection.size
        THEN ntRet.st = "err" /\ ntRet.err = "InvalidIndex"
        ELSE ntRet.st = "ok" /\ ntRet.str = PoolString(ntRet.index)

\* C9: after string_at(i) has returned Ok(s), the cache maps i to s.
C9_Memoized ==
    (StringAtReturned /\ ntRet.st = "ok") =>
        (ntRet.index \in DOMAIN names /\ names[ntRet.index] = ntRet.str)

\* C10: whatever string_at and get_extends calls came before, string_at(i)
\* returns what it returns on the table as constructed: the same string or
\* the same error for the same index.
C10_StringAtStable ==
    StringAtReturned =>
        LET fresh == string_at(ntImage, ntSection, <<>>, ntRet.index)
        IN  /\ ntRet.st = fresh.st
            /\ ntRet.err = fresh.err
            /\ ntRet.str = fresh.str

\* string_at called twice in a row with the same index after get_extends has
\* filled the roots, returning the same non-empty string both times; and the
\* same for an index that fails.
C10_Witness ==
    /\ StringAtReturned /\ ntPrev.op = "string_at"
    /\ ntPrev.index = ntRet.index
    /\ extends # <<>>
    /\ ntRet.st = "ok" /\ Len(ntRet.str) > 1
    /\ ntRet.str = ntPrev.str

(***************************************************************************)
(* Properties of the fixed-row tables.                                     *)
(***************************************************************************)
\* The declared row size of the table built over a section of this name.
RowSize(name) ==
    IF name = NATIVES_SECTION THEN 4 ELSE 8

TbBuilt == tbRes.st # "none"

\* Row r (0-based) of the section, decoded from the image.
RowAt(r) ==
    LET K   == RowSize(tbSection.name)
        pos == tbSection.data_offset + r * K
    IN  IF tbSection.name = NATIVES_SECTION
        THEN [name_offset |-> ReadI32LE(tbImage, pos),
              name |-> string_at(tbImage, tbNames, <<>>,
                                 ReadI32LE(tbImage, pos)).str]
        ELSE IF tbSection.name = DBG_LINES_SECTION
        THEN [address |-> ReadU32LE(tbImage, pos),
              line |-> ReadU32LE(tbImage, pos + 4)]
        ELSE IF tbSection.name = TAGS_SECTION
        THEN [tag |-> ReadU32LE(tbImage, pos),
              name_offset |-> ReadI32LE(tbImage, pos + 4),
              name |-> string_at(tbImage, tbNames, <<>>,
                                 ReadI32LE(tbImage, pos + 4)).str]
        ELSE [address |-> ReadU32LE(tbImage, pos),
              name_offset |-> ReadI32LE(tbImage, pos + 4),
              name |-> string_at(tbImage, tbNames, <<>>,
                                 ReadI32LE(tbImage, pos + 4)).str]

\* Every whole row of the section carries a name offset inside ".names".
NamesResolvable ==
    \/ tbSection.name = DBG_LINES_SECTION
    \/ LET K == RowSize(tbSection.name)
       IN  \A r \in 0..(tbSection.size \div K - 1) :
              LET off == ReadI32LE(tbImage, tbSection.data_offset + r * K
                                               + (K - 4))
              IN  off >= 0 /\ off < tbNames.size

\* C6: a fixed-row table over a section of S bytes with row size K returns
\* InvalidSize when S mod K # 0, and when S mod K = 0 (names resolvable)
\* succeeds with exactly S / K rows, decoded in file order.
C6_FixedRows ==
    LET K == RowSize(tbSection.name)
        S == tbSection.size
    IN  TbBuilt =>
            IF S % K # 0
            THEN tbRes.st = "err" /\ tbRes.err = "InvalidSize"
            ELSE NamesResolvable =>
                    /\ tbRes.st = "ok"
                    /\ tbRes.entries = [r \in 1..(S \div K) |-> RowAt(r - 1)]

\* What the constructors do: InvalidSize when the size has the bit of the
\* mask set (8, or 4 for natives and tags), otherwise size / divisor rows
\* are read (divisor 4 for natives and tags), 8 bytes each except natives.
TbMask(name) ==
    IF name \in {NATIVES_SECTION, TAGS_SECTION} THEN 4 ELSE 8

FixedRowsAsBuilt ==
    LET M == TbMask(tbSection.name)
        S == tbSection.size
    IN  (TbBuilt /\ NamesResolvable) =>
            IF (S \div M) % 2 = 1
            THEN tbRes.st = "err" /\ tbRes.err = "InvalidSize"
            ELSE IF tbSection.name = TAGS_SECTION /\ S >= 8
            THEN tbRes.st = "err" /\ tbRes.err = "Io"
            ELSE /\ tbRes.st = "ok"
                 /\ Len(tbRes.entries) = S \div M

(***************************************************************************)
(* Properties of SMXFile::new.                                             *)
(***************************************************************************)
FileDone == fpc = "done"

\* The directory entries of the input that carry this name.
InputSections(name) ==
    LET h == SMXHeader_new(fInput)
    IN  IF h.st # "ok" THEN {}
        ELSE {h.header.sections[i] : i \in {j \in DOMAIN h.header.sections :
                                               h.header.sections[j].name = name}}

\* Row r (0-based) of the input's ".publics" section p, its name read from
\* the input's ".names" section nsec.
InputPublic(p, nsec, r) ==
    LET image == SMXHeader_new(fInput).header.data
        off   == ReadI32LE(image, p.data_offset + 8 * r + 4)
    IN  [address |-> ReadU32LE(image, p.data_offset + 8 * r),
         name_offset |-> off,
         name |-> string_at(image, nsec, <<>>, off).str]

InputPublics(p, nsec) ==
    [r \in 1..(p.size \div 8) |-> InputPublic(p, nsec, r - 1)]

\* C7: for a container holding ".names" and a ".publics" section of n >= 1
\* well-formed entries, SMXFile::new succeeds, the publics table has exactly
\* those n entries with their names resolved through ".names", and for
\* every entry is_function_at_address(address) is true and
\* find_function_name(address) is the name of the first public with that
\* address.
C7_PublicsFile ==
    \A nsec \in InputSections(NAMES_SECTION) :
    \A p \in InputSections(PUBLICS_SECTION) :
        (FileDone /\ p.size >= 8 /\ p.size % 8 = 0) =>
            /\ fRes.st = "ok"
            /\ file.publics.some
            /\ file.publics.v = InputPublics(p, nsec)
            /\ \A i \in DOMAIN file.publics.v :
                  LET addr == file.publics.v[i].address
                  IN  /\ is_function_at_address(file, addr)
                      /\ find_function_name(file, addr)
                             = FirstAt(InputPublics(p, nsec), addr).name

\* What does hold: when SMXFile::new returns Ok and has built the publics
\* table, the table is the rows of the input and the two queries answer for
\* every row.
PublicsWhenOk ==
    \A nsec \in InputSections(NAMES_SECTION) :
    \A p \in InputSections(PUBLICS_SECTION) :
        (FileDone /\ fRes.st = "ok" /\ file.publics.some) =>
            /\ file.publics.v = InputPublics(p, nsec)
            /\ \A i \in DOMAIN file.publics.v :
                  LET addr == file.publics.v[i].address
                  IN  /\ is_function_at_address(file, addr)
                      /\ find_function_name(file, addr)
                             = FirstAt(InputPublics(p, nsec), addr).name

\* One public at address 0 named "foo", the code section in place and every
\* borrow granted: SMXFile::new returns InvalidSize.
OnePublicInvalidSize ==
    /\ FileDone
    /\ fRes = [st |-> "err", err |-> "InvalidSize"]
    /\ file.names.some /\ file.codev1.some
    /\ \E p \in InputSections(PUBLICS_SECTION) : p.size = 8

(***************************************************************************)
(* Properties of get_extends.                                              *)
(***************************************************************************)
GetExtendsReturned == ntRet.op = "get_extends" /\ ntRet.st = "ok"

\* The section offsets at which a NUL-terminated string starts: 0 and every
\* offset that follows a NUL, each only if a NUL follows within the section.
PoolRoots ==
    {r \in 0..(ntSection.size - 1) :
        /\ r = 0 \/ ntImage[ntSection.data_offset + r] = 0
        /\ NextNul(r) < ntSection.size}

IsIncreasing(list) ==
    \A i \in DOMAIN list : \A j \in DOMAIN list : i < j => list[i] < list[j]

\* C11: get_extends returns, in increasing order, exactly the start offsets
\* of the NUL-terminated strings of the pool; string_at of every returned
\* root is the section's bytes from the root to the next NUL; and a repeated
\* get_extends returns the same list, without duplicates.
C11_GetExtends ==
    GetExtendsReturned =>
        /\ IsIncreasing(ntRet.list)
        /\ {ntRet.list[i] : i \in DOMAIN ntRet.list} = PoolRoots
        /\ \A i \in DOMAIN ntRet.list :
              LET s == string_at(ntImage, ntSection, names, ntRet.list[i])
              IN  s.st = "ok" /\ s.str = PoolString(ntRet.list[i])
        /\ (ntPrev.op = "get_extends" /\ ntPrev.st = "ok")
               => ntRet.list = ntPrev.list

\* get_extends called twice in a row on "foo\0bar\0baz\0".
C11_Witness ==
    /\ GetExtendsReturned
    /\ ntPrev.op = "get_extends" /\ ntPrev.st = "ok"
    /\ ntRet.list = <<0, 4, 8>>

(***************************************************************************)
(* Properties of Tag.                                                      *)
(***************************************************************************)
\* Bits 25..30 of a word, in place.
FlagBits(tag) == ((tag \div (2 ^ 25)) % 64) * (2 ^ 25)

\* C12: for a tag row of raw value tag, id() is tag with the six flag bits
\* cleared, flags() is the six flag bits of tag, value() is tag; so
\* id() | flags() = value() and id() & flags() = 0.
C12_TagAccessors ==
    LET t == Tag_new(tgEntry)
    IN  /\ tgRet.op = "id" => tgRet.val = tgEntry.tag - FlagBits(tgEntry.tag)
        /\ tgRet.op = "flags" => tgRet.val = FlagBits(tgEntry.tag)
        /\ tgRet.op = "value" => tgRet.val = tgEntry.tag
        /\ tgRet.op # "none" =>
              /\ Or32(Tag_id(t), Tag_flags(t)) = Tag_value(t)
              /\ And32(Tag_id(t), Tag_flags(t)) = 0

\* id() of a row with bit 31, flag bits and an id above 2^16.
C12_Witness ==
    /\ tgRet.op = "id"
    /\ tgEntry.tag = 65541 + 1073741824 + 33554432
    /\ tgRet.val = 65541

(***************************************************************************)
(* Properties of the lookups.                                              *)
(***************************************************************************)
\* Row r (0-based) of the ".tags" section, as a Tag.
SectionTag(r) ==
    LET pos == tbSection.data_offset + 8 * r
    IN  Tag_new([tag |-> ReadU32LE(tbImage, pos),
                 name_offset |-> ReadI32LE(tbImage, pos + 4),
                 name |-> string_at(tbImage, tbNames, <<>>,
                                    ReadI32LE(tbImage, pos + 4)).str])

SectionTags == [r \in 1..(tbSection.size \div 8) |-> SectionTag(r - 1)]

\* The first of these tags whose id() is t, or nothing.
FirstWithId(tags, t) ==
    LET hits == {i \in DOMAIN tags : Tag_id(tags[i]) = t}
    IN  IF hits = {} THEN LkNone
        ELSE LkSome(tags[CHOOSE i \in hits : \A j \in hits : i <= j])

\* C13: over a ".tags" section of whole rows the table is built, and
\* find_tag(t) returns the first tag in table order whose id() equals t and
\* nothing when there is none; a match is in the cache afterwards, a miss
\* leaves the cache as it was.
C13_FindTag ==
    (tbSection.name = TAGS_SECTION /\ TbBuilt) =>
        /\ tbRes.st = "ok"
        /\ TagsOf(tbRes.entries) = SectionTags
        /\ lkRet.op = "find_tag" =>
              /\ lkRet.res.found = FirstWithId(SectionTags, lkRet.arg).found
              /\ lkRet.res.found =>
                    lkRet.res.v = FirstWithId(SectionTags, lkRet.arg).v
              /\ lkRet.res.found =>
                    /\ lkRet.arg \in DOMAIN tagCache
                    /\ tagCache[lkRet.arg] = lkRet.res.v
              /\ ~lkRet.res.found => lkRet.arg \notin DOMAIN tagCache

\* A ".tags" section of one whole row: the constructor fails with Io.
OneTagRowFails ==
    /\ tbSection.name = TAGS_SECTION /\ tbSection.size = 8
    /\ tbRes.st = "err" /\ tbRes.err = "Io"

\* On the rows of the section taken as the table, find_tag(5) returns the
\* row whose id() is 65541 = 0x10005 when that row comes first.
FindTagNarrowsId ==
    /\ tbSection.name = TAGS_SECTION /\ tbSection.size >= 16
    /\ find_tag(SectionTags, <<>>, 5).found
    /\ Tag_id(find_tag(SectionTags, <<>>, 5).v) = 65541
    /\ FirstWithId(SectionTags, 5).found
    /\ FirstWithId(SectionTags, 5).v # find_tag(SectionTags, <<>>, 5).v

IsSortedByAddress(entries) ==
    \A i \in DOMAIN entries : \A j \in DOMAIN entries :
        i <= j => ULe(entries[i].address, entries[j].address)

\* The entry of greatest index whose address is <= addr, or nothing.
LastAtOrBelow(entries, addr) ==
    LET hits == {i \in DOMAIN entries : ULe(entries[i].address, addr)}
    IN  IF hits = {} THEN LkNone
        ELSE LkSome(entries[CHOOSE i \in hits : \A j \in hits : j <= i])

FindFileReturned ==
    /\ lkRet.op = "find_file"
    /\ tbRes.st = "ok"
    /\ IsSortedByAddress(tbRes.entries)

\* C14: on a debug-files or debug-lines table sorted by non-decreasing
\* address, find_file(addr) returns the entry of greatest index whose
\* address is <= addr (its name, or its line + 1), and nothing when the
\* table is empty or every address is greater; it never indexes outside the
\* table.
C14_FindFile ==
    FindFileReturned =>
        LET e == LastAtOrBelow(tbRes.entries, lkRet.arg)
        IN  /\ ~lkRet.res.panic
            /\ lkRet.res.found = e.found
            /\ e.found =>
                  lkRet.res.v = IF tbSection.name = DBG_FILES_SECTION
                                THEN e.v.name ELSE e.v.line + 1

\* An address that two rows of a four-row table share: the later row is
\* returned.
C14_Witness ==
    /\ FindFileReturned
    /\ tbSection.name = DBG_LINES_SECTION
    /\ Len(tbRes.entries) = 4
    /\ tbRes.entries[1].address = 256 /\ tbRes.entries[2].address = 256
    /\ lkRet.arg = 256
    /\ lkRet.res.found /\ lkRet.res.v = 12

(***************************************************************************)
(* Properties of the RTTI type decoder.                                    *)
(***************************************************************************)
HasPrefix(text, prefix) ==
    Len(text) >= Len(prefix) /\ SubSeq(text, 1, Len(prefix)) = prefix

\* The primitive type tags and their names.
PrimitiveName(b) ==
    CASE b = 1 -> "bool" [] b = 6 -> "int" [] b = 12 -> "float"
      [] b = 14 -> "char" [] b = 16 -> "any" [] b = 17 -> "Function"
      [] OTHER -> ""

IsPrimitive(b) == PrimitiveName(b) # ""

\* The byte at offset of the section, or -1 past its end.
RtByte(offset) ==
    IF InBytes(rtBytes, offset) THEN ByteAt(rtBytes, offset) ELSE -1

\* A type decoded on its own by a builder made at offset.
TypeAt(offset) == decode_new(TypeBuilder_new(rtFile, rtBytes, offset), rtChecks)

\* The return type at offset: "void" for VOID, else a type.
RetAt(offset) ==
    IF RtByte(offset) = CB_VOID
    THEN [st |-> "ok", text |-> "void", next |-> offset + 1]
    ELSE LET t == TypeAt(offset)
         IN  [st |-> t.st, text |-> t.text, next |-> t.self.offset]

\* The argument at offset: an optional BYREF, then a type.
ArgAt(offset) ==
    LET byref == RtByte(offset) = CB_BYREF
        t == TypeAt(IF byref THEN offset + 1 ELSE offset)
    IN  [st |-> t.st, text |-> IF byref THEN t.text \o "&" ELSE t.text,
         next |-> t.self.offset]

DecodeNewReturned == rtRet.op = "decode_new" /\ rtRet.res.st = "ok"

\* C15: a leading CONST byte is consumed and gives the prefix "const " to
\* the type decoded there and to no other ([CONST, INT32] is "const int");
\* a function type is prefixed only by its own leading CONST, whatever its
\* return and argument types are and whatever the flag was before, its
\* return and argument types read as they do decoded on their own; and
\* decode_new leaves the const flag as it found it.
C15_ConstPrefix ==
    rtRet.op = "decode_new" =>
        LET off == rtRet.offset
            b0 == RtByte(off)
            b1 == RtByte(off + 1)
            res == rtRet.res
            fn == IF b0 = CB_CONST THEN off + 1 ELSE off
            ret == RetAt(fn + 2)
            a1 == ArgAt(ret.next)
            a2 == ArgAt(a1.next)
        IN  /\ (b0 = CB_CONST /\ IsPrimitive(b1)) =>
                  /\ res.st = "ok"
                  /\ res.text = "const " \o PrimitiveName(b1)
                  /\ res.self.offset = off + 2
            /\ res.st = "ok" =>
                  /\ res.self.is_const = rtRet.is_const
                  /\ b0 = CB_CONST => HasPrefix(res.text, "const ")
                  /\ b0 \notin {CB_CONST, CB_ARRAY, CB_FIXEDARRAY} =>
                        ~HasPrefix(res.text, "const ")
                  /\ (RtByte(fn) = CB_FUNCTION /\ RtByte(fn + 1) = 2
                        /\ RtByte(fn + 2) # CB_VARIADIC) =>
                        res.text =
                            (IF b0 = CB_CONST THEN "const " ELSE "") \o
                            "function " \o ret.text \o " (" \o a1.text \o
                            ", " \o a2.text \o ")"

\* A function whose return type and second argument are const, decoded by
\* a builder whose flag was set: only those two are prefixed.
C15_Witness ==
    /\ DecodeNewReturned
    /\ rtBytes = <<CB_FUNCTION, 2, CB_CONST, CB_INT32, CB_BOOL, CB_CONST,
                   CB_FLOAT32>>
    /\ rtRet.offset = 0 /\ rtRet.is_const
    /\ rtRet.res.text = "function const int (bool, const float)"
    /\ rtRet.res.self.is_const

FunctionTypeReturned == rtRet.op = "function_type_from_offset"

\* C16: the function decoder reads argc, an optional VARIADIC, the return
\* type ("void" for VOID) and argc arguments, each an optional BYREF (which
\* appends "&") and a type, and gives "function <ret> (<args>)" with the
\* arguments joined by ", " and "..." before the ")" when variadic; the
\* cursor ends just past the last argument.  Stated for argc <= 2.
C16_FunctionType ==
    (FunctionTypeReturned /\ RtByte(rtRet.offset) \in 0..2
        /\ RtByte(rtRet.offset + 1) # -1) =>
        LET off == rtRet.offset
            argc == RtByte(off)
            variadic == RtByte(off + 1) = CB_VARIADIC
            ret == RetAt(IF variadic THEN off + 2 ELSE off + 1)
            a1 == ArgAt(ret.next)
            a2 == ArgAt(a1.next)
            dots == IF variadic THEN "..." ELSE ""
            res == rtRet.res
        IN  /\ (argc = 0 /\ ret.st = "ok") =>
                  /\ res.st = "ok"
                  /\ res.text = "function " \o ret.text \o " (" \o dots
                                    \o ")"
                  /\ res.self.offset = ret.next
            /\ (argc = 1 /\ ret.st = "ok" /\ a1.st = "ok") =>
                  /\ res.st = "ok"
                  /\ res.text = "function " \o ret.text \o " (" \o a1.text
                                    \o dots \o ")"
                  /\ res.self.offset = a1.next
            /\ (argc = 2 /\ ret.st = "ok" /\ a1.st = "ok" /\ a2.st = "ok") =>
                  /\ res.st = "ok"
                  /\ res.text = "function " \o ret.text \o " (" \o a1.text
                                    \o ", " \o a2.text \o dots \o ")"
                  /\ res.self.offset = a2.next
            /\ rtBytes = <<CB_FUNCTION, 1, CB_VOID, CB_INT32>> /\ off = 1 =>
                  res.text = "function void (int)"

\* The variadic example, decoded from the byte after FUNCTION.
C16_Witness ==
    /\ FunctionTypeReturned
    /\ rtBytes = <<CB_FUNCTION, 2, CB_VARIADIC, CB_FLOAT32, CB_BYREF,
                   CB_INT32, CB_BOOL>>
    /\ rtRet.offset = 1
    /\ rtRet.res.st = "ok"
    /\ rtRet.res.text = "function float (int&, bool...)"
    /\ rtRet.res.self.offset = 7

\* The number of bytes of the LEB128 integer at offset: the bytes up to and
\* including the first one with the high bit clear; 0 when there is none.
RECURSIVE Leb128Len(_)
Leb128Len(offset) ==
    IF RtByte(offset) = -1 THEN 0
    ELSE IF RtByte(offset) < 128 THEN 1
    ELSE IF Leb128Len(offset + 1) = 0 THEN 0
    ELSE 1 + Leb128Len(offset + 1)

\* The sum over i < n of (b_i & 0x7f) * 2^(7 i), b_0 the byte at offset.
RECURSIVE Leb128Sum(_, _)
Leb128Sum(offset, n) ==
    IF n = 0 THEN 0
    ELSE (RtByte(offset) % 128) + 128 * Leb128Sum(offset + 1, n - 1)

\* There is a LEB128 integer of at most four bytes at offset.
Leb128At(offset) == Leb128Len(offset) \in 1..4

Leb128Value(offset) == Leb128Sum(offset, Leb128Len(offset))

\* C17: FIXEDARRAY reads a LEB128 integer N and an inner type T and gives
\* "T[N]"; ARRAY reads an inner type T and gives "T[]"; the primitive tags
\* give "bool", "int", "float", "char", "any", "Function"; a byte that is
\* no tag gives "unknown type code: B".
C17_ArraysAndPrimitives ==
    rtRet.op = "decode_new" =>
        LET off == rtRet.offset
            b0 == RtByte(off)
            res == rtRet.res
            len == Leb128Len(off + 1)
            fixed == TypeAt(off + 1 + len)
            elem == TypeAt(off + 1)
        IN  /\ (b0 = CB_FIXEDARRAY /\ Leb128At(off + 1)
                   /\ fixed.st = "ok") =>
                  /\ res.st = "ok"
                  /\ res.text = fixed.text \o "[" \o
                                    ToString(Leb128Value(off + 1)) \o "]"
            /\ (b0 = CB_ARRAY /\ elem.st = "ok") =>
                  /\ res.st = "ok"
                  /\ res.text = elem.text \o "[]"
            /\ IsPrimitive(b0) =>
                  /\ res.st = "ok"
                  /\ res.text = PrimitiveName(b0)
            /\ b0 \in {0, 2, 128, 255} =>
                  /\ res.st = "ok"
                  /\ res.text = "unknown type code: " \o ToString(b0)

\* What does hold: the same with the length N a single byte.
ArraysWithOneByteLength ==
    rtRet.op = "decode_new" =>
        LET off == rtRet.offset
            b0 == RtByte(off)
            res == rtRet.res
            fixed == TypeAt(off + 2)
            elem == TypeAt(off + 1)
        IN  /\ (b0 = CB_FIXEDARRAY /\ RtByte(off + 1) \in 0..127
                   /\ fixed.st = "ok") =>
                  /\ res.st = "ok"
                  /\ res.text = fixed.text \o "[" \o
                                    ToString(RtByte(off + 1)) \o "]"
            /\ (b0 = CB_ARRAY /\ elem.st = "ok") =>
                  /\ res.st = "ok"
                  /\ res.text = elem.text \o "[]"
            /\ IsPrimitive(b0) =>
                  /\ res.st = "ok"
                  /\ res.text = PrimitiveName(b0)
            /\ b0 \in {0, 2, 128, 255} =>
                  /\ res.st = "ok"
                  /\ res.text = "unknown type code: " \o ToString(b0)

\* [FIXEDARRAY, 0x80, 0x02, CHAR8] reads "char[0]".
FixedArray256ReadsZero ==
    /\ DecodeNewReturned
    /\ rtBytes = <<CB_FIXEDARRAY, 128, 2, CB_CHAR8>> /\ rtRet.offset = 0
    /\ rtRet.res.text = "char[0]"

\* The table a tag byte names, or nothing.
TableOf(b) ==
    CASE b = CB_ENUM -> rtFile.rtti_enums
      [] b = CB_TYPEDEF -> rtFile.rtti_typedefs
      [] b = CB_TYPESET -> rtFile.rtti_typesets
      [] b = CB_STRUCT -> rtFile.rtti_classdefs
      [] b = CB_ENUMSTRUCT -> rtFile.rtti_enum_structs
      [] OTHER -> None

\* C18: an ENUM, TYPEDEF, TYPESET, STRUCT or ENUMSTRUCT byte followed by
\* the LEB128 encoding of k gives the name of row k of its table, for every
\* k below the row count, and the cursor ends past the whole index.
C18_TableNames ==
    (rtRet.op = "decode_new" /\ ~rtFile.borrowed) =>
        LET off == rtRet.offset
            table == TableOf(RtByte(off))
            k == Leb128Value(off + 1)
            res == rtRet.res
        IN  (table.some /\ Leb128At(off + 1) /\ k < Len(table.v)) =>
                /\ res.st = "ok"
                /\ res.text = table.v[k + 1]
                /\ res.self.offset = off + 1 + Leb128Len(off + 1)

\* What does hold: the same with the index a single byte.
TableNamesWithOneByteIndex ==
    (rtRet.op = "decode_new" /\ ~rtFile.borrowed) =>
        LET off == rtRet.offset
            table == TableOf(RtByte(off))
            k == RtByte(off + 1)
            res == rtRet.res
        IN  (table.some /\ k \in 0..127 /\ k < Len(table.v)) =>
                /\ res.st = "ok"
                /\ res.text = table.v[k + 1]
                /\ res.self.offset = off + 2

\* [ENUM, 0x80, 0x02] over a table of more than 256 rows names row 0.
Enum256NamesRowZero ==
    /\ DecodeNewReturned
    /\ rtBytes = <<CB_ENUM, 128, 2>> /\ rtRet.offset = 0
    /\ Len(rtFile.rtti_enums.v) > 256
    /\ rtRet.res.text = rtFile.rtti_enums.v[1]
    /\ rtFile.rtti_enums.v[1] # rtFile.rtti_enums.v[257]

\* C19: decode_u32 on bytes b_0 .. b_n, the high bit set on all but the
\* last, returns the sum of (b_i & 0x7f) * 2^(7 i) and advances the cursor
\* by n + 1.
C19_DecodeU32 ==
    (rtRet.op = "decode_u32" /\ Leb128At(rtRet.offset)) =>
        /\ rtRet.res.st = "ok"
        /\ rtRet.res.value = Leb128Value(rtRet.offset)
        /\ rtRet.res.offset = rtRet.offset + Leb128Len(rtRet.offset)

\* What does hold: a returned value is below 256, the or of the 7-bit
\* groups shifted inside a byte, and the cursor is past the last byte read.
DecodeU32InOneByte ==
    (rtRet.op = "decode_u32" /\ rtRet.res.st = "ok") =>
        /\ rtRet.res.value \in 0..255
        /\ rtRet.res.offset = rtRet.offset + Leb128Len(rtRet.offset)
        /\ Leb128Len(rtRet.offset) = 1 =>
              rtRet.res.value = RtByte(rtRet.offset)
        /\ Leb128Len(rtRet.offset) = 2 =>
              rtRet.res.value =
                  Or32(RtByte(rtRet.offset) % 128,
                       128 * (RtByte(rtRet.offset + 1) % 2))

\* [0x80, 0x02] decodes to 0.
DecodeU32Of256IsZero ==
    /\ rtRet.op = "decode_u32" /\ rtRet.offset = 1
    /\ rtBytes = <<CB_ENUM, 128, 2>>
    /\ rtRet.res = [st |-> "ok", value |-> 0, offset |-> 3]

\* A third byte aborts the build that checks overflow.
DecodeU32ThirdByteAborts ==
    /\ rtRet.op = "decode_u32" /\ rtRet.offset = 0
    /\ rtBytes = <<128, 128, 1>> /\ rtChecks
    /\ rtRet.res.st = "panic"

\* C20: typeset_types_from_offset(offset) reads a LEB128 count c at offset
\* and returns c type names decoded one after the other from the first
\* byte after the count.  Stated for c <= 2.
C20_TypesetTypes ==
    (rtRet.op = "typeset_types_from_offset" /\ Leb128At(rtRet.offset)) =>
        LET off == rtRet.offset
            c == Leb128Value(off)
            t1 == TypeAt(off + Leb128Len(off))
            t2 == TypeAt(t1.self.offset)
            res == rtRet.res
        IN  /\ c = 0 => res = [st |-> "ok", types |-> <<>>]
            /\ (c = 1 /\ t1.st = "ok") =>
                  res = [st |-> "ok", types |-> <<t1.text>>]
            /\ (c = 2 /\ t1.st = "ok" /\ t2.st = "ok") =>
                  res = [st |-> "ok", types |-> <<t1.text, t2.text>>]

\* What does hold: the types are decoded from offset itself, the count
\* byte read as the first type.
TypesetTypesFromOffset ==
    (rtRet.op = "typeset_types_from_offset" /\ rtRet.res.st = "ok") =>
        LET off == rtRet.offset
            t1 == TypeAt(off)
            t2 == TypeAt(t1.self.offset)
            res == rtRet.res
        IN  /\ Len(res.types) >= 1 => res.types[1] = t1.text
            /\ Len(res.types) >= 2 => res.types[2] = t2.text

\* [1, INT32] gives one type, "bool", the count byte 0x01 read as BOOL.
TypesetCountReadAsType ==
    /\ rtRet.op = "typeset_types_from_offset" /\ rtRet.offset = 0
    /\ rtBytes = <<1, CB_INT32>>
    /\ rtRet.res = [st |-> "ok", types |-> <<"bool">>]

(***************************************************************************)
(* The disassembler (SpecDasm).                                            *)
(***************************************************************************)
\* The code blob of the container, as the code section hands it out.
DsBlob == get_data_vec(dsFile.header.data, dsCode.v).data

HasBlobCell(o) == CanRead(DsBlob, o, 4)

BlobCell(o) == ReadI32LE(DsBlob, o)

\* The code section is the first thing of the data area, where the offset the
\* disassembler reads at is the offset of the blob.
CodeAtDataOffset ==
    code_start(dsFile.header, dsCode.v)
        = dsCode.v.section.data_offset + dsCode.v.code_header.code_offset

Diassembled == dsCode.some /\ dsRet.op = "diassemble"

DiassembledOk == Diassembled /\ dsRet.st = "ok"

TableAfter == dsFile.called_functions.v

\* C21: diassemble at a proc_offset where the first i32 of the code blob is
\* anything but the PROC opcode value fails with Other("Function does not
\* start with PROC"), returns no instruction and leaves the
\* discovered-functions table as it was.
C21_NotProc ==
    (Diassembled /\ HasBlobCell(dsRet.arg) /\ BlobCell(dsRet.arg) # V1OPCode_PROC)
        => /\ dsRet.st = "err"
           /\ dsRet.err = NOT_PROC
           /\ dsRet.insns = <<>>
           /\ TableAfter = dsRet.before

\* A first cell of PROC + 256 is taken for PROC and the procedure is
\* disassembled.
WideFirstCellAccepted ==
    /\ Diassembled
    /\ CodeAtDataOffset
    /\ HasBlobCell(dsRet.arg)
    /\ BlobCell(dsRet.arg) = V1OPCode_PROC + 256
    /\ dsRet.st = "ok"
    /\ Len(dsRet.insns) = 1
    /\ dsRet.insns[1].opcode = V1OPCode_RETN

\* A first cell whose low byte is no opcode ordinal aborts the call.
FirstCellNoOrdinalAborts ==
    /\ Diassembled
    /\ CodeAtDataOffset
    /\ HasBlobCell(dsRet.arg)
    /\ BlobCell(dsRet.arg) = 200
    /\ dsRet.st = "panic"

\* A first cell whose low byte is another opcode's ordinal is refused as the
\* claim says.
FirstCellOtherOpcodeRefused ==
    /\ Diassembled
    /\ CodeAtDataOffset
    /\ HasBlobCell(dsRet.arg)
    /\ BlobCell(dsRet.arg) = V1OPCode_RETN
    /\ dsRet.st = "err"
    /\ dsRet.err = NOT_PROC
    /\ dsRet.insns = <<>>
    /\ TableAfter = dsRet.before

\* The cell at offset o of the code the disassembler works on, and whether
\* the image holds it.
HasCodeCell(o) ==
    /\ code_start(dsFile.header, dsCode.v) + o >= 0
    /\ CanRead(dsFile.header.data, code_start(dsFile.header, dsCode.v) + o, 4)

CodeCell(o) == ReadI32LE(dsFile.header.data, code_start(dsFile.header, dsCode.v) + o)

CodeSize == dsCode.v.code_header.code_size

\* The offset after instruction i of the result; after the leading PROC for
\* i = 0.
InsnEnd(i) ==
    IF i = 0 THEN dsRet.arg + 4
    ELSE dsRet.insns[i].address + 4 * (1 + Len(dsRet.insns[i].params))

Opcodes == [i \in 1..Len(dsRet.insns) |-> dsRet.insns[i].opcode]

AddRetnDecoded ==
    /\ DiassembledOk
    /\ DsBlob = AddBlob
    /\ dsRet.arg = 0
    /\ Opcodes = <<V1OPCode_ADD, V1OPCode_RETN>>

RetnAloneDecoded ==
    /\ DiassembledOk
    /\ DsBlob = RetnBlob
    /\ Opcodes = <<V1OPCode_RETN>>
    /\ TableAfter = <<>>

\* C23: a decoded CASETBL with case count N >= 0 has 2 (N + 1) params: N,
\* the default target, then value and target of each case in turn; decoding
\* goes on at the cell after the last pair, 2 (N + 1) cells past the opcode.
C23_CaseTable ==
    DiassembledOk =>
        \A i \in 1..Len(dsRet.insns) :
            LET insn == dsRet.insns[i]
                N    == CodeCell(insn.address + 4)
                next == insn.address + 4 + 4 * (2 * (N + 1))
            IN  insn.opcode = V1OPCode_CASETBL =>
                    /\ N >= 0
                    /\ Len(insn.params) = 2 * (N + 1)
                    /\ insn.params[1] = N
                    /\ insn.params[2] = CodeCell(insn.address + 8)
                    /\ \A c \in 0..(N - 1) :
                          /\ insn.params[3 + 2 * c]
                                = CodeCell(insn.address + 12 + 8 * c)
                          /\ insn.params[4 + 2 * c]
                                = CodeCell(insn.address + 16 + 8 * c)
                    /\ IF i < Len(dsRet.insns)
                       THEN /\ dsRet.insns[i + 1].address = next
                            /\ dsRet.insns[i + 1].opcode = CodeCell(next)
                       ELSE \/ next >= CodeSize
                            \/ CodeCell(next) \in {V1OPCode_PROC, V1OPCode_ENDPROC}

\* A table of two cases, followed by RETN.
C23_Witness ==
    /\ DiassembledOk
    /\ CodeAtDataOffset
    /\ DsBlob = CaseBlob
    /\ dsRet.arg = 48
    /\ Len(dsRet.insns) = 2
    /\ dsRet.insns[1].opcode = V1OPCode_CASETBL
    /\ dsRet.insns[1].params = <<2, 80, -1, 72, 6, 76>>
    /\ dsRet.insns[2] = [address |-> 80, opcode |-> V1OPCode_RETN, params |-> <<>>]

\* A table of no case: the count and the default target.
CaseTableOfNoCase ==
    /\ DiassembledOk
    /\ CodeAtDataOffset
    /\ DsBlob = CaseBlob
    /\ dsRet.arg = 0
    /\ dsRet.insns[1].opcode = V1OPCode_CASETBL
    /\ dsRet.insns[1].params = <<0, 16>>
    /\ dsRet.insns[2].address = 16

\* A negative count aborts the call; a count the code does not hold is an
\* error.
NegativeCaseCountAborts ==
    /\ Diassembled
    /\ CodeAtDataOffset
    /\ DsBlob = CaseBadBlob
    /\ dsRet.arg = 0
    /\ dsRet.st = "panic"

CaseCountPastCodeFails ==
    /\ Diassembled
    /\ CodeAtDataOffset
    /\ DsBlob = CaseBadBlob
    /\ dsRet.arg = 16
    /\ dsRet.st = "err"
    /\ dsRet.err = "Io"

AddressesOf(entries) == {entries[i].address : i \in DOMAIN entries}

PublicAddresses == IF dsFile.publics.some THEN AddressesOf(dsFile.publics.v) ELSE {}

\* The targets of the CALLs among the first i instructions of the result.
CallTargets(i) ==
    {dsRet.insns[k].params[1] :
        k \in {k \in 1..i : dsRet.insns[k].opcode = V1OPCode_CALL}}

\* The instruction whose CALL is the first to the address.
FirstCallTo(addr) ==
    CHOOSE k \in 1..Len(dsRet.insns) :
        /\ dsRet.insns[k].opcode = V1OPCode_CALL
        /\ dsRet.insns[k].params[1] = addr
        /\ addr \notin CallTargets(k - 1)

\* C24: a decoded CALL whose target is in neither ".publics" nor the
\* discovered-functions table appends one entry with that address and the
\* name "sub_" followed by the address in lowercase hexadecimal; a CALL to an
\* address of either table leaves the table as it is.
C24_CallTargets ==
    /\ Diassembled =>
          /\ Len(TableAfter) >= Len(dsRet.before)
          /\ SubSeq(TableAfter, 1, Len(dsRet.before)) = dsRet.before
          /\ \A i \in (Len(dsRet.before) + 1)..Len(TableAfter) :
                /\ TableAfter[i].name = SUB_PREFIX \o LowerHex(TableAfter[i].address)
                /\ TableAfter[i].address \notin PublicAddresses
                /\ \A j \in 1..(i - 1) : TableAfter[j].address # TableAfter[i].address
          /\ \A i \in DOMAIN TableAfter :
                TableAfter[i].address = 172
                    => TableAfter[i].name = SUB_PREFIX \o <<97, 99>>
    /\ DiassembledOk =>
          /\ {TableAfter[i].address : i \in (Len(dsRet.before) + 1)..Len(TableAfter)}
                = CallTargets(Len(dsRet.insns))
                      \ (PublicAddresses \cup AddressesOf(dsRet.before))
          /\ \A i, j \in (Len(dsRet.before) + 1)..Len(TableAfter) :
                i < j => FirstCallTo(TableAfter[i].address)
                            < FirstCallTo(TableAfter[j].address)

\* One procedure calls an address twice that no table holds: one entry.
C24_Witness ==
    /\ DiassembledOk
    /\ CodeAtDataOffset
    /\ DsBlob = RecallBlob
    /\ dsRet.arg = 16
    /\ 48 \notin PublicAddresses \cup AddressesOf(dsRet.before)
    /\ Opcodes = <<V1OPCode_CALL, V1OPCode_CALL, V1OPCode_RETN, V1OPCode_NOP,
                   V1OPCode_NOP>>
    /\ TableAfter = Append(dsRet.before,
                           [address |-> 48, name |-> SUB_PREFIX \o <<51, 48>>])

\* A CALL to an address of ".publics", and one to an address discovered by
\* an earlier call of the disassembler.
CallToPublicAddsNothing ==
    /\ DiassembledOk
    /\ CodeAtDataOffset
    /\ DsBlob = RecallBlob
    /\ dsRet.arg = 0
    /\ 16 \in PublicAddresses
    /\ CallTargets(Len(dsRet.insns)) = {16}
    /\ TableAfter = dsRet.before

CallToDiscoveredAddsNothing ==
    /\ DiassembledOk
    /\ CodeAtDataOffset
    /\ DsBlob = RecallBlob
    /\ dsRet.arg = 48
    /\ 48 \in AddressesOf(dsRet.before)
    /\ CallTargets(Len(dsRet.insns)) = {48}
    /\ TableAfter = dsRet.before

ReadCell == dsCode.some /\ dsRet.op = "read_at"

\* C29: for every offset o of the blob with o + 4 <= code_size the cell the
\* disassembler reads at o is bytes o..o+4 of get_data_vec(): its
\* code_start is section.data_offset + code_header.code_offset.
C29_CodeStart ==
    (ReadCell /\ dsRet.arg + 4 <= CodeSize)
        => /\ dsRet.st = "ok"
           /\ dsRet.val = BlobCell(dsRet.arg)
           /\ CodeAtDataOffset

\* With another section before ".code" the disassembler reads the opening
\* PROC of the blob as another value.
CodeReadAtDataOffset ==
    /\ ReadCell
    /\ dsRet.arg = 0
    /\ BlobCell(0) = V1OPCode_PROC
    /\ dsRet.st = "ok"
    /\ dsRet.val # V1OPCode_PROC
    /\ code_start(dsFile.header, dsCode.v)
           = dsFile.header.data_offset + dsCode.v.code_header.code_offset
    /\ dsFile.header.data_offset < dsCode.v.section.data_offset

\* With ".code" first in the data area every cell read is the blob's.
CodeFirstReadsBlob ==
    /\ ReadCell
    /\ dsCode.v.section.data_offset = dsFile.header.data_offset
    /\ dsRet.arg + 4 = CodeSize
    /\ dsRet.st = "ok"
    /\ dsRet.val = BlobCell(dsRet.arg)

(***************************************************************************)
(* SMXFile::new and the discovered-functions table (SpecFile).             *)
(***************************************************************************)
Discovered == file.called_functions.v

FilePublicAddresses == IF file.publics.some THEN AddressesOf(file.publics.v) ELSE {}

FileOk == FileDone /\ fRes.st = "ok"

\* The blob of the container's code section.
FileBlob == get_data_vec(file.header.data, file.codev1.v).data

\* ".code" is the first section of the data area.
FileCodeFirst == file.codev1.v.section.data_offset = file.header.data_offset

\* C25: when SMXFile::new returns Ok every address of the
\* discovered-functions table has been disassembled, those appended while a
\* discovered function was disassembled included: each is the address of a
\* public or of an entry the drain loop has walked.
C25_DrainClosed ==
    FileOk => AddressesOf(Discovered)
                  \subseteq FilePublicAddresses \cup AddressesOf(fsnap)

\* The public at 0 calls 32 and the function at 32 calls 48: SMXFile::new
\* returns Ok with 48 in the table and never disassembled.
DiscoveredInDrainNotDisassembled ==
    /\ FileOk
    /\ file.codev1.some
    /\ FileCodeFirst
    /\ FileBlob = CallBlob
    /\ FilePublicAddresses = {0, 16}
    /\ AddressesOf(fsnap) = {32}
    /\ AddressesOf(Discovered) = {32, 48}

\* The same container, the append inside the drain loop refused.
AppendInDrainAborts ==
    /\ FileDone
    /\ file.codev1.some
    /\ FileCodeFirst
    /\ FileBlob = CallBlob
    /\ AddressesOf(fsnap) = {32}
    /\ fidx = 0
    /\ fRes = [st |-> "panic", err |-> "BorrowMutError"]

\* What the loops do: every public and every entry found while the publics
\* were disassembled is disassembled once.
DrainWalksSnapshot ==
    FileOk => /\ fidx = Len(fsnap)
              /\ Len(Discovered) >= Len(fsnap)
              /\ SubSeq(Discovered, 1, Len(fsnap)) = fsnap

\* C26: SMXFile::new ends by returning Ok or the first Error and never
\* aborts.
C26_ErrorsByValue == FileDone => fRes.st \in {"ok", "err"}

\* ".publics" without ".names": names.as_ref().unwrap() aborts.
PublicsWithoutNamesAborts ==
    /\ FileDone
    /\ InputSections(NAMES_SECTION) = {}
    /\ InputSections(PUBLICS_SECTION) # {}
    /\ fRes = [st |-> "panic", err |-> "unwrap"]

\* ".publics" of two rows without ".code": codev1.as_ref().unwrap() aborts.
PublicsWithoutCodeAborts ==
    /\ FileDone
    /\ InputSections(NAMES_SECTION) # {}
    /\ InputSections(CODE_SECTION) = {}
    /\ file.publics.some
    /\ Len(file.publics.v) = 2
    /\ fRes = [st |-> "panic", err |-> "unwrap"]

\* A section declared past the end of the image: the slice aborts.
SectionPastImageAborts ==
    /\ FileDone
    /\ fInput = OverhangContainer
    /\ file.names.some
    /\ ~file.publics.some
    /\ fRes = [st |-> "panic", err |-> ""]

\* An input shorter than image_size: the slice of the image aborts.
ShortInputAborts ==
    /\ FileDone
    /\ Len(fInput) < ReadI32LE(fInput, 7)
    /\ file = NoFile
    /\ fRes.st = "panic"

\* A code cell that is no opcode ordinal: the descriptor table's index
\* aborts.
UnknownOpcodeAborts ==
    /\ FileDone
    /\ file.codev1.some
    /\ FileCodeFirst
    /\ FileBlob = BadBlob
    /\ 0 \in FilePublicAddresses
    /\ fRes = [st |-> "panic", err |-> ""]

\* Errors that are returned by value.
ErrorReturned == FileDone /\ fRes.st = "err"

\* C28: during and after SMXFile::new the discovered-functions table is
\* append-only, holds no address twice and no address of a public, and
\* every entry is named "sub_" plus the lowercase hexadecimal of its address.
C28_DiscoveredTable ==
    /\ [](/\ \A i, j \in DOMAIN Discovered :
                Discovered[i].address = Discovered[j].address => i = j
          /\ AddressesOf(Discovered) \cap FilePublicAddresses = {}
          /\ \A i \in DOMAIN Discovered :
                /\ Discovered[i].name = SUB_PREFIX \o LowerHex(Discovered[i].address)
                /\ Discovered[i].address = 48
                      => Discovered[i].name = SUB_PREFIX \o <<51, 48>>)
    /\ [][/\ Len(Discovered') >= Len(Discovered)
          /\ SubSeq(Discovered', 1, Len(Discovered)) = Discovered]_vars

\* Two entries, the second appended while the first was disassembled.
C28_Witness ==
    /\ FileOk
    /\ FilePublicAddresses = {0, 16}
    /\ fsnap = <<[address |-> 32, name |-> SUB_PREFIX \o <<50, 48>>]>>
    /\ Discovered = <<[address |-> 32, name |-> SUB_PREFIX \o <<50, 48>>],
                      [address |-> 48, name |-> SUB_PREFIX \o <<51, 48>>]>>

\* A function called twice, and by itself, is entered once.
CalledTwiceEnteredOnce ==
    /\ FileOk
    /\ file.codev1.some
    /\ FileCodeFirst
    /\ FileBlob = RecallBlob
    /\ FilePublicAddresses = {0, 16}
    /\ AddressesOf(Discovered) = {48}
    /\ Len(Discovered) = 1

RttiBuilt == rlRes.st # "none"

RlData == get_data(rlImage, rlSection).data

ListHeaderSize == ReadU32LE(RlData, 0)

ListRowSize == ReadU32LE(RlData, 4)

ListRowCount == ReadU32LE(RlData, 8)

NameOf(index) == string_at(rlImage, rlNames, <<>>, index).str

\* The row of the table whose fields start at offset o of the section.
RttiRowAt(o) ==
    CASE rlSection.name = RTTI_ENUMS_SECTION -> NameOf(ReadI32LE(RlData, o))
      [] rlSection.name = RTTI_METHODS_SECTION ->
             [name |-> NameOf(ReadI32LE(RlData, o)),
              pcode_start |-> ReadI32LE(RlData, o + 4),
              pcode_end |-> ReadI32LE(RlData, o + 8),
              signature |-> ReadI32LE(RlData, o + 12)]
      [] rlSection.name = RTTI_NATIVES_SECTION ->
             [name |-> NameOf(ReadI32LE(RlData, o)),
              signature |-> ReadI32LE(RlData, o + 4)]
      [] OTHER ->
             [flags |-> ReadI16LE(RlData, o),
              name_offset |-> ReadI32LE(RlData, o + 2),
              type_id |-> ReadI32LE(RlData, o + 6),
              name |-> NameOf(ReadI32LE(RlData, o + 2))]

\* The section holds the list header and row_count rows of row_size bytes
\* after header_size bytes, with header_size >= 12 and row_size at least
\* the bytes of the row's fields.
RttiWellFormed ==
    /\ Len(RlData) >= 12
    /\ ListHeaderSize >= 12
    /\ ListRowSize >= RowLayoutSize(rlSection.name)
    /\ Len(RlData) >= ListHeaderSize + ListRowCount * ListRowSize

\* C27: an RTTI table constructor reads the list header and decodes exactly
\* row_count rows, row i from section offset header_size + i * row_size,
\* for every header_size >= 12 and every row_size at least the row layout.
C27_RowOffsets ==
    (RttiBuilt /\ RttiWellFormed)
        => /\ rlRes.st = "ok"
           /\ Len(rlRes.entries) = ListRowCount
           /\ \A i \in 1..Len(rlRes.entries) :
                 rlRes.entries[i] = RttiRowAt(ListHeaderSize + (i - 1) * ListRowSize)

\* What the constructors do: the rows are read one after the other from
\* offset 12, each as long as its fields.
RowsReadInSequence ==
    (RttiBuilt /\ rlRes.st = "ok")
        => /\ Len(rlRes.entries) = ListRowCount
           /\ \A i \in 1..Len(rlRes.entries) :
                 rlRes.entries[i]
                     = RttiRowAt(12 + (i - 1) * RowLayoutSize(rlSection.name))

\* header_size = 16: the first row is read from the 4 bytes before it.
HeaderSizeIgnored ==
    /\ RttiBuilt
    /\ RttiWellFormed
    /\ rlSection.name = RTTI_ENUMS_SECTION
    /\ ListHeaderSize = 16
    /\ ListRowSize = 16
    /\ ListRowCount = 1
    /\ RttiRowAt(16) = <<102, 111, 111>>
    /\ rlRes.st = "ok"
    /\ rlRes.entries = <<<<98, 97, 122>>>>

\* row_size = 12 for rows of two words: the second row is read from the
\* last 4 bytes of the first.
RowSizeIgnored ==
    /\ RttiBuilt
    /\ RttiWellFormed
    /\ rlSection.name = RTTI_NATIVES_SECTION
    /\ ListHeaderSize = 12
    /\ ListRowSize = 12
    /\ ListRowCount = 2
    /\ rlRes.st = "ok"
    /\ rlRes.entries[1] = RttiRowAt(12)
    /\ rlRes.entries[2] = RttiRowAt(20)
    /\ rlRes.entries[2] # RttiRowAt(24)

\* header_size = 12 and row_size the bytes of the fields: the rows are the
\* table's.
RowsAsLaidOut ==
    /\ RttiBuilt
    /\ RttiWellFormed
    /\ ListHeaderSize = 12
    /\ ListRowSize = RowLayoutSize(rlSection.name)
    /\ ListRowCount = 2
    /\ rlRes.st = "ok"
    /\ rlRes.entries = <<RttiRowAt(12), RttiRowAt(12 + ListRowSize)>>

=============================================================================
